---- MODULE Spec2Model ----
(***************************************************************************)
(* A model of the "format" string formatting library (nejohnson/format).   *)
(*                                                                         *)
(* Three tiers are modelled: the full format() engine, tinyformat's        *)
(* format() and microformat().  A call is a state machine: the scan loop   *)
(* of format() is split into its steps (literal run, conversion            *)
(* specification parse, conversion dispatch, return); the converters and   *)
(* the output composer are operators computed as the C code computes them. *)
(* Characters are one-character strings, C strings are sequences of        *)
(* characters, the sink is a log of the calls made to the consumer.        *)
(***************************************************************************)
EXTENDS Integers, Sequences, FiniteSets, TLC

VARIABLES
    fmt,    \* the template being scanned (NULLP: a null pointer)
    ptr,    \* position of the scan in fmt
    args,   \* the variable argument list
    ap,     \* the argument cursor: args[ap] is the next argument
    fspec,  \* the format specification record (T_FormatSpec)
    conv,   \* the conversion letter of the specification just parsed
    pc,     \* position of the call: "start", "loop", "conv", "done"
    out,    \* the log of the calls made to the consumer, in call order
    ret,    \* the value returned by the call (NoRet while it runs)
    text,   \* the output text of the directives executed so far
    last,   \* what the last conversion did
    nfail,  \* the index in out of the call the consumer failed, 0 if none
    other,  \* the locals of a second call of format that is suspended
    frame   \* the locals of do_conv_k while it runs

vars == <<fmt, ptr, args, ap, fspec, conv, pc, out, ret, text, last, nfail,
          other, frame>>

(***************************************************************************)
(* Characters, strings and pointers                                        *)
(***************************************************************************)
NUL == "NUL"

NULLP == <<"(nil)">>

EXBADFORMAT == -1

MAX(a, b) == IF a > b THEN a ELSE b

MIN(a, b) == IF a < b THEN a ELSE b

ABS(a) == IF a < 0 THEN -a ELSE a

digits == << "0", "1", "2", "3", "4", "5", "6", "7", "8", "9",
             "A", "B", "C", "D", "E", "F", "G", "H", "I", "J",
             "K", "L", "M", "N", "O", "P", "Q", "R", "S", "T",
             "U", "V", "W", "X", "Y", "Z" >>

lowers == << "0", "1", "2", "3", "4", "5", "6", "7", "8", "9",
             "a", "b", "c", "d", "e", "f", "g", "h", "i", "j",
             "k", "l", "m", "n", "o", "p", "q", "r", "s", "t",
             "u", "v", "w", "x", "y", "z" >>

ISDIGIT(c) == \E i \in 1..10 : digits[i] = c

DigitVal(c) == (CHOOSE i \in 1..10 : digits[i] = c) - 1

\* cc |= 0x20 on a digit character: letters become lower case
OrLower(c) == IF \E i \in 1..36 : digits[i] = c
              THEN lowers[CHOOSE i \in 1..36 : digits[i] = c]
              ELSE c

\* READ_CHAR(mode, p): the byte at p, the terminator at the end of the string
READ_CHAR(s, p) == IF p >= 1 /\ p <= Len(s) THEN s[p] ELSE NUL

STRLEN(s) == Len(s)

Rep(c, n) == [i \in 1..n |-> c]

RECURSIVE Flatten(_)
Flatten(ss) == IF ss = <<>> THEN <<>> ELSE Head(ss) \o Flatten(Tail(ss))

RECURSIVE SumLen(_)
SumLen(ss) == IF ss = <<>> THEN 0 ELSE Len(Head(ss)) + SumLen(Tail(ss))

(***************************************************************************)
(* Limits and flags of the full tier                                       *)
(***************************************************************************)
MAXWIDTH == 500

MAXPREC == 500

MAXBASE == 36

BUFLEN == 130

PAD_STRING_LEN == 16

FSPACE == "FSPACE"

FPLUS == "FPLUS"

FMINUS == "FMINUS"

FHASH == "FHASH"

FZERO == "FZERO"

FBANG == "FBANG"

FCARET == "FCARET"

F_IS_SIGNED == "F_IS_SIGNED"

fchar == << " ", "+", "-", "#", "0", "!", "^" >>

fbit == << FSPACE, FPLUS, FMINUS, FHASH, FZERO, FBANG, FCARET >>

STRCHR(s, c) == IF \E i \in 1..Len(s) : s[i] = c
                THEN CHOOSE i \in 1..Len(s) : s[i] = c
                ELSE 0

spaces == Rep(" ", PAD_STRING_LEN)

zeroes == Rep("0", PAD_STRING_LEN)

\* (q) | 1 on the ASCII code of a length qualifier
DOUBLE_QUAL(q) == CASE q = "h" -> "i"
                    [] q = "l" -> "m"
                    [] q = "j" -> "k"
                    [] q = "z" -> "{"
                    [] q = "t" -> "u"
                    [] q = "L" -> "M"
                    [] OTHER   -> q

(***************************************************************************)
(* The sink.  k.calls is the log of consumer calls made so far in the      *)
(* current step, k.failAt the index of the call for which the consumer     *)
(* returns NULL (0: none), k.rc the result of the last operation.          *)
(***************************************************************************)
Sink(failAt) == [calls |-> <<>>, failAt |-> failAt, rc |-> 0]

emit(k, s, n) ==
    LET c2 == Append(k.calls, SubSeq(s, 1, n))
    IN  [k EXCEPT !.calls = c2,
                  !.rc = IF Len(c2) = k.failAt THEN EXBADFORMAT ELSE 0]

RECURSIVE pad(_, _, _)
pad(k, s, n) ==
    IF n > 0
    THEN LET j  == MIN(PAD_STRING_LEN, n)
             k2 == emit(k, s, j)
         IN  IF k2.rc < 0 THEN [k2 EXCEPT !.rc = EXBADFORMAT]
                          ELSE pad(k2, s, n - j)
    ELSE [k EXCEPT !.rc = 0]

\* gen_out step by step: a.k is the sink, a.n the count n; a step is skipped
\* once a call of the consumer has failed
GenAcc(a, k2, cnt) ==
    [k |-> k2, n |-> IF k2.rc < 0 THEN a.n ELSE a.n + cnt]

\* if ( cnt && pad( s, cnt, cons, parg ) < 0 ) return EXBADFORMAT; n += cnt;
\* (GenPad_OneChunk: a variant that counts one chunk of the padding only)
GenPad_OneChunk(a, s, cnt) ==
    IF a.k.rc < 0 \/ cnt = 0 THEN a
    ELSE GenAcc(a, pad(a.k, s, cnt), MIN(cnt, PAD_STRING_LEN))

GenPad(a, s, cnt) ==
    IF a.k.rc < 0 \/ cnt = 0 THEN a ELSE GenAcc(a, pad(a.k, s, cnt), cnt)

\* if ( present && emit( s, cnt, cons, parg ) < 0 ) return EXBADFORMAT;
\* (GenEmit_Unchecked: a variant that does not test the result of emit)
GenEmit_Unchecked(a, s, cnt, present) ==
    IF a.k.rc < 0 \/ ~present THEN a
    ELSE [k |-> [emit(a.k, s, cnt) EXCEPT !.rc = 0], n |-> a.n + cnt]

GenEmit(a, s, cnt, present) ==
    IF a.k.rc < 0 \/ ~present THEN a ELSE GenAcc(a, emit(a.k, s, cnt), cnt)

GenRet(a) == [a.k EXCEPT !.rc = IF a.k.rc < 0 THEN EXBADFORMAT ELSE a.n]

\* (gen_out_PrefixFirst: a variant that sends the prefix before the left
\* space padding)
gen_out_PrefixFirst(k, ps1, pfx_s, pfx_n, pz, e_s, e_n, ps2) ==
    GenRet(GenPad(GenEmit(GenPad(GenPad(GenEmit(
        [k |-> [k EXCEPT !.rc = 0], n |-> 0],
        pfx_s, pfx_n, pfx_s # NULLP /\ pfx_n # 0),
        spaces, ps1),
        zeroes, pz),
        e_s, e_n, e_n # 0),
        spaces, ps2))

gen_out(k, ps1, pfx_s, pfx_n, pz, e_s, e_n, ps2) ==
    GenRet(GenPad(GenEmit(GenPad(GenEmit(GenPad(
        [k |-> [k EXCEPT !.rc = 0], n |-> 0],
        spaces, ps1),
        pfx_s, pfx_n, pfx_s # NULLP /\ pfx_n # 0),
        zeroes, pz),
        e_s, e_n, e_n # 0),
        spaces, ps2))

\* (calc_space_padding_Short: a variant whose deficit is one too small;
\* calc_space_padding_Floor: a variant that always rounds the left half down)
calc_space_padding_Short(pspec, length) ==
    LET width == IF length < pspec.width THEN pspec.width - length - 1 ELSE 0
        right == IF FMINUS \in pspec.flags THEN width ELSE 0
        left  == IF FMINUS \in pspec.flags THEN 0 ELSE width
        tot   == left + right
        cleft == (tot + (IF FMINUS \in pspec.flags THEN 0 ELSE 1)) \div 2
    IN  IF FCARET \in pspec.flags
        THEN [ps1 |-> cleft, ps2 |-> tot - cleft]
        ELSE [ps1 |-> left, ps2 |-> right]

calc_space_padding_Floor(pspec, length) ==
    LET width == IF length < pspec.width THEN pspec.width - length ELSE 0
        right == IF FMINUS \in pspec.flags THEN width ELSE 0
        left  == IF FMINUS \in pspec.flags THEN 0 ELSE width
        tot   == left + right
        cleft == tot \div 2
    IN  IF FCARET \in pspec.flags
        THEN [ps1 |-> cleft, ps2 |-> tot - cleft]
        ELSE [ps1 |-> left, ps2 |-> right]

\* (calc_space_padding_BiasRight: a variant that gives the odd space to the
\* right half unless the - flag is set)
calc_space_padding_BiasRight(pspec, length) ==
    LET width == IF length < pspec.width THEN pspec.width - length ELSE 0
        right == IF FMINUS \in pspec.flags THEN width ELSE 0
        left  == IF FMINUS \in pspec.flags THEN 0 ELSE width
        tot   == left + right
        cleft == (tot + (IF FMINUS \in pspec.flags THEN 1 ELSE 0)) \div 2
    IN  IF FCARET \in pspec.flags
        THEN [ps1 |-> cleft, ps2 |-> tot - cleft]
        ELSE [ps1 |-> left, ps2 |-> right]

calc_space_padding(pspec, length) ==
    LET width == IF length < pspec.width THEN pspec.width - length ELSE 0
        right == IF FMINUS \in pspec.flags THEN width ELSE 0
        left  == IF FMINUS \in pspec.flags THEN 0 ELSE width
        tot   == left + right
        cleft == (tot + (IF FMINUS \in pspec.flags THEN 0 ELSE 1)) \div 2
    IN  IF FCARET \in pspec.flags
        THEN [ps1 |-> cleft, ps2 |-> tot - cleft]
        ELSE [ps1 |-> left, ps2 |-> right]

(***************************************************************************)
(* Arguments.  An argument is a tagged value: [t |-> "int", v |-> n],      *)
(* [t |-> "chr", v |-> c] (an int that is the code of character c),        *)
(* [t |-> "str", v |-> chars], [t |-> "null", v |-> <<>>] (a null pointer) *)
(* or [t |-> "fp", v |-> bits].  va_arg reads args[ap] and advances ap.    *)
(***************************************************************************)
IntArg(n) == [t |-> "int", v |-> n]

\* an int argument that holds the code of a character
CharArg(c) == [t |-> "chr", v |-> c]

StrArg(s) == [t |-> "str", v |-> s]

NullArg == [t |-> "null", v |-> <<>>]

va_arg(as, i) == IF i <= Len(as) THEN as[i] ELSE IntArg(0)

\* conversions of a long to the narrower integer types
ToShort(v) == LET m == v % 65536 IN IF m >= 32768 THEN m - 65536 ELSE m

ToSChar(v) == LET m == v % 256 IN IF m >= 128 THEN m - 256 ELSE m

ToUShort(v) == v % 65536

ToUChar(v) == v % 256

(***************************************************************************)
(* The scratch digit buffer numBuffer[BUFLEN]: a is the array (index i of  *)
(* the C array is a[i+1]), oob records an access outside the array.        *)
(***************************************************************************)
UNINIT == "?"

\* a buffer with room for the digits of a long in base 2 only
NewBuffer_DigitsOnly(len) == [a |-> Rep(UNINIT, len \div 4), oob |-> FALSE]

NewBuffer(len) == [a |-> Rep(UNINIT, len), oob |-> FALSE]

BufSet(buf, i, c) == IF i >= 0 /\ i < Len(buf.a)
                     THEN [buf EXCEPT !.a[i + 1] = c]
                     ELSE [buf EXCEPT !.oob = TRUE]

BufGet(buf, i) == IF i >= 0 /\ i < Len(buf.a) THEN buf.a[i + 1] ELSE UNINIT

BufSlice(buf, i, n) == [j \in 1..n |-> BufGet(buf, i + j - 1)]

\* A long is as wide as an int on the platform modelled (an int and a
\* pointer are both SIZEOF_INT bytes).  The unsigned long LONG_MAX + 1, the
\* bit pattern of LONG_MIN, is written LONG_MIN; uv % base and uv / base
\* are computed for it from LONG_MAX.
LONG_MAX == 2147483647

LONG_MIN == -LONG_MAX - 1

ULongMod(uv, base) ==
    IF uv = LONG_MIN THEN ((LONG_MAX % base) + 1) % base ELSE uv % base

ULongDiv(uv, base) ==
    IF uv = LONG_MIN
    THEN (LONG_MAX \div base)
           + (IF LONG_MAX % base = base - 1 THEN 1 ELSE 0)
    ELSE uv \div base

\* the digit loops of do_conv_numeric: digits are written right to left
RECURSIVE ExpandDigits(_, _, _, _, _)
ExpandDigits(uv, base, lower, buf, numWidth) ==
    IF uv = 0 THEN [buf |-> buf, numWidth |-> numWidth]
    ELSE LET cc == IF lower THEN OrLower(digits[ULongMod(uv, base) + 1])
                            ELSE digits[ULongMod(uv, base) + 1]
             nw == numWidth + 1
             stored == BufSet(buf, Len(buf.a) - nw, cc)
         IN  \* the digit is stored before the next division
             CASE stored.oob \in BOOLEAN ->
                    ExpandDigits(ULongDiv(uv, base), base, lower, stored, nw)

\* for ( s = idx, n = d_rem - wid; n; n--, s++ ) numBuffer[s-1] = numBuffer[s]
RECURSIVE ShiftLeft(_, _, _)
ShiftLeft(buf, s, n) ==
    IF n = 0 THEN buf
    ELSE ShiftLeft(BufSet(buf, s - 1, BufGet(buf, s)), s + 1, n - 1)

\* the for loop that reads a group width right to left
RECURSIVE ReadWid(_, _, _, _, _, _)
ReadWid(gs, p, glen, grp, wid, decade) ==
    IF glen # 0 /\ READ_CHAR(gs, p) # NUL /\ ISDIGIT(READ_CHAR(gs, p))
    THEN ReadWid(gs, p - 1, glen - 1, READ_CHAR(gs, p),
                 wid + decade * DigitVal(READ_CHAR(gs, p)), decade * 10)
    ELSE [p |-> p, glen |-> glen, wid |-> wid,
          grp |-> IF glen # 0 THEN READ_CHAR(gs, p) ELSE grp]

\* the "if ( glen )" block of the grouping loop: the next group symbol and
\* width are read; brk tells that the loop is left
GroupRead(g, gs, c0, star, rw) ==
    IF g.glen = 0 THEN [g EXCEPT !.brk = FALSE]
    ELSE IF c0 = "-" THEN [g EXCEPT !.grp = c0, !.brk = TRUE]
    ELSE IF c0 = "*"
    THEN IF star < 0
         THEN [g EXCEPT !.grp = c0, !.wid = star, !.ap = g.ap + 1,
                        !.brk = TRUE]
         ELSE IF g.glen - 1 = 0
         THEN [g EXCEPT !.grp = c0, !.wid = star, !.ap = g.ap + 1,
                        !.p = g.p - 1, !.glen = 0, !.brk = TRUE]
         ELSE [g EXCEPT !.grp = READ_CHAR(gs, g.p - 1), !.wid = star,
                        !.ap = g.ap + 1, !.p = g.p - 2,
                        !.glen = g.glen - 2, !.brk = FALSE]
    ELSE IF rw.glen = 0
         THEN [g EXCEPT !.grp = rw.grp, !.wid = rw.wid, !.p = rw.p,
                        !.glen = 0, !.brk = TRUE]
         ELSE [g EXCEPT !.grp = READ_CHAR(gs, rw.p), !.wid = rw.wid,
                        !.p = rw.p - 1, !.glen = rw.glen - 1,
                        !.brk = FALSE]

\* the separator is inserted: the digits on its left move one place left
GroupInsert(h) ==
    [h EXCEPT !.buf = BufSet(ShiftLeft(h.buf, h.idx, h.d_rem - h.wid),
                             h.idx - 1 + h.d_rem - h.wid, h.grp),
              !.idx = h.idx - 1,
              !.numWidth = h.numWidth + 1,
              !.ins = h.ins + 1,
              !.d_rem = h.d_rem - h.wid]

\* the while ( d_rem ) loop that inserts the grouping separators
RECURSIVE GroupLoop(_, _, _)
GroupNext(h, gs, as) ==
    IF h.brk THEN h
    ELSE IF h.wid # 0
    THEN IF h.d_rem <= h.wid THEN h
         ELSE GroupLoop(GroupInsert(h), gs, as)
    ELSE IF h.glen = 0 THEN h
    ELSE GroupLoop(h, gs, as)

GroupLoop(g, gs, as) ==
    IF g.d_rem = 0 THEN g
    ELSE GroupNext(GroupRead(g, gs, READ_CHAR(gs, g.p), va_arg(as, g.ap).v,
                             ReadWid(gs, g.p, g.glen, READ_CHAR(gs, g.p),
                                     0, 1)),
                   gs, as)

(***************************************************************************)
(* Converters of the full tier.  Each returns the sink (k.rc is the C      *)
(* return value), the argument cursor, the format specification as the     *)
(* converter leaves it, and sec, the sections it handed to gen_out.        *)
(***************************************************************************)
NoSec == [ps1 |-> 0, pfx |-> <<>>, pz |-> 0, body |-> <<>>, ps2 |-> 0,
          length |-> 0]

do_conv_n(pspec, as, i) ==
    [k |-> [Sink(0) EXCEPT !.rc = 0], ap |-> i + 1, pspec |-> pspec,
     sec |-> NoSec, oob |-> FALSE]

RECURSIVE RepeatChar(_, _, _, _)
RepeatNext(r, cc, rep, n) ==
    IF r.rc = EXBADFORMAT THEN r ELSE RepeatChar(r, cc, rep - 1, n + r.rc)

RepeatChar(k, cc, rep, n) ==
    IF rep = 0 THEN [k EXCEPT !.rc = n]
    ELSE RepeatNext(gen_out(k, 0, NULLP, 0, 0, <<cc>>, 1, 0), cc, rep, n)

do_conv_c(pspec, as, i, code, k) ==
    LET cc  == IF code = "c" THEN va_arg(as, i).v ELSE pspec.repchar
        ps  == IF pspec.prec < 0 THEN [pspec EXCEPT !.prec = 1] ELSE pspec
        rep == MAX(1, ps.prec)
    IN  [k |-> RepeatChar(k, cc, rep, 0),
         ap |-> IF code = "c" THEN i + 1 ELSE i,
         pspec |-> ps,
         sec |-> [NoSec EXCEPT !.body = Rep(cc, rep), !.length = rep],
         oob |-> FALSE]

\* (do_conv_s_NullEmpty: a variant that converts a null pointer as the empty
\* string)
do_conv_s_NullEmpty(pspec, as, i, code, k) ==
    LET a   == va_arg(as, i)
        s   == IF a.t = "null" THEN <<>> ELSE a.v
        l0  == STRLEN(s)
        length == IF pspec.prec >= 0 THEN MIN(pspec.prec, l0) ELSE l0
        sp  == calc_space_padding(pspec, length)
    IN  [k |-> gen_out(k, sp.ps1, NULLP, 0, 0, s, length, sp.ps2),
         ap |-> i + 1,
         pspec |-> pspec,
         sec |-> [ps1 |-> sp.ps1, pfx |-> <<>>, pz |-> 0,
                  body |-> SubSeq(s, 1, length), ps2 |-> sp.ps2,
                  length |-> length],
         oob |-> FALSE]

do_conv_s(pspec, as, i, code, k) ==
    LET a   == va_arg(as, i)
        s   == IF a.t = "null" THEN <<"(", "n", "u", "l", "l", ")">> ELSE a.v
        l0  == STRLEN(s)
        length == IF pspec.prec >= 0 THEN MIN(pspec.prec, l0) ELSE l0
        sp  == calc_space_padding(pspec, length)
    IN  [k |-> gen_out(k, sp.ps1, NULLP, 0, 0, s, length, sp.ps2),
         ap |-> i + 1,
         pspec |-> pspec,
         sec |-> [ps1 |-> sp.ps1, pfx |-> <<>>, pz |-> 0,
                  body |-> SubSeq(s, 1, length), ps2 |-> sp.ps2,
                  length |-> length],
         oob |-> FALSE]

\* the value converted, as the length qualifier narrows it
SignedVal(qual, raw) ==
    IF qual = "h" THEN ToShort(raw)
    ELSE IF qual = DOUBLE_QUAL("h") THEN ToSChar(raw)
    ELSE raw

UnsignedVal(qual, raw) ==
    IF qual = "h" THEN ToUShort(raw)
    ELSE IF qual = DOUBLE_QUAL("h") THEN ToUChar(raw)
    ELSE raw

\* uv = v < 0 ? -v : v overflows when v is LONG_MIN
NegOverflow(pspec, raw) ==
    F_IS_SIGNED \in pspec.flags /\ SignedVal(pspec.qual, raw) = LONG_MIN

\* uv; where -v overflows this is the value of a build that wraps
Magnitude(pspec, raw) ==
    IF NegOverflow(pspec, raw) THEN LONG_MIN
    ELSE IF F_IS_SIGNED \in pspec.flags THEN ABS(SignedVal(pspec.qual, raw))
    ELSE UnsignedVal(pspec.qual, raw)

\* the sign character of a signed conversion, NUL if there is none
SignChar(pspec, raw) ==
    IF F_IS_SIGNED \notin pspec.flags THEN NUL
    ELSE IF SignedVal(pspec.qual, raw) < 0 THEN "-"
    ELSE IF FPLUS \in pspec.flags THEN "+"
    ELSE IF FSPACE \in pspec.flags THEN " "
    ELSE NUL

\* a sign is shown through the prefix mechanism: it sets the # flag
NumFlags(pspec, sgn) ==
    IF sgn # NUL THEN pspec.flags \cup {FHASH} ELSE pspec.flags

\* the b, x and X conversions have a two character prefix
WidePrefix(flags, code, uv) ==
    (code = "x" \/ code = "X" \/ code = "b") /\ (FBANG \in flags \/ uv # 0)

\* prefix[] and pfxWidth
NumPrefix(flags, code, uv, signed, sgn) ==
    [s |-> << IF signed THEN sgn ELSE "0",
              IF WidePrefix(flags, code, uv)
              THEN (IF FBANG \in flags /\ code = "X" THEN "x" ELSE code)
              ELSE UNINIT >>,
     n |-> IF WidePrefix(flags, code, uv) THEN 2
           ELSE IF code = "o" /\ uv # 0 THEN 1
           ELSE IF sgn # NUL THEN 1
           ELSE 0]

\* the digits of bases above 10 are lower case for x, and for i and u
LowerDigits(code, base) ==
    IF base = 10 THEN FALSE
    ELSE IF base = 2 \/ base = 8 \/ base = 16
    THEN code = "x" \/ code = "i" \/ code = "u"
    ELSE code = "i" \/ code = "u"

\* the digits expanded into numBuffer, then grouped
NumDigitsOf(pspec, as, i, ex) ==
    IF Len(pspec.grouping) # 0
    THEN GroupLoop([buf |-> ex.buf, p |-> Len(pspec.grouping),
                    glen |-> Len(pspec.grouping), grp |-> UNINIT, wid |-> 0,
                    d_rem |-> ex.numWidth, idx |-> BUFLEN - ex.numWidth,
                    numWidth |-> ex.numWidth, ins |-> 0, ap |-> i + 1,
                    brk |-> FALSE], pspec.grouping, as)
    ELSE [buf |-> ex.buf, numWidth |-> ex.numWidth, ins |-> 0, ap |-> i + 1]

\* precision, zero and space padding, and the call of gen_out
NumPad(ps, k, pfx, hash, g, numWidth, sp) ==
    [k |-> gen_out(k, IF FZERO \in ps.flags THEN 0 ELSE sp.ps1,
                   IF hash THEN pfx.s ELSE NULLP,
                   IF hash THEN pfx.n ELSE 0,
                   numWidth - g.numWidth
                     + (IF FZERO \in ps.flags THEN sp.ps1 ELSE 0),
                   BufSlice(g.buf, BUFLEN - g.numWidth, g.numWidth),
                   g.numWidth, sp.ps2),
     ap |-> g.ap,
     pspec |-> ps,
     sec |-> [ps1 |-> IF FZERO \in ps.flags THEN 0 ELSE sp.ps1,
              pfx |-> IF hash THEN SubSeq(pfx.s, 1, pfx.n) ELSE <<>>,
              pz |-> numWidth - g.numWidth
                     + (IF FZERO \in ps.flags THEN sp.ps1 ELSE 0),
              body |-> BufSlice(g.buf, BUFLEN - g.numWidth, g.numWidth),
              ps2 |-> sp.ps2,
              length |-> (IF hash THEN pfx.n ELSE 0) + numWidth],
     oob |-> g.buf.oob]

NumOut(ps, k, pfx, hash, g, numWidth) ==
    NumPad(ps, k, pfx, hash, g, numWidth,
           calc_space_padding(ps, (IF hash THEN pfx.n ELSE 0) + numWidth))

\* a missing precision is 1; a given precision turns the 0 flag off
\* (NumSpec_ZeroIsDefault: a variant that takes the precision 0 as missing)
NumSpec_ZeroIsDefault(pspec, flags) ==
    [pspec EXCEPT !.prec = IF pspec.prec <= 0 THEN 1 ELSE pspec.prec,
                  !.flags = IF pspec.prec <= 0 THEN flags
                            ELSE flags \ {FZERO}]

NumSpec(pspec, flags) ==
    [pspec EXCEPT !.prec = IF pspec.prec < 0 THEN 1 ELSE pspec.prec,
                  !.flags = IF pspec.prec < 0 THEN flags
                            ELSE flags \ {FZERO}]

\* (NumFinish_NoInsertions: a variant that leaves the separators out of the
\* width the precision is compared with)
NumFinish_NoInsertions(ps, k, pfx, g) ==
    NumOut(ps, k, pfx, FHASH \in ps.flags, g, MAX(g.numWidth, ps.prec))

NumFinish(ps, k, pfx, g) ==
    NumOut(ps, k, pfx, FHASH \in ps.flags, g,
           MAX(g.numWidth, ps.prec + g.ins))

NumConv(pspec, as, i, code, k, base, uv, sgn) ==
    NumFinish(NumSpec(pspec, NumFlags(pspec, sgn)), k,
              NumPrefix(NumFlags(pspec, sgn), code, uv,
                        F_IS_SIGNED \in pspec.flags, sgn),
              NumDigitsOf(pspec, as, i,
                          ExpandDigits(uv, base, LowerDigits(code, base),
                                       NewBuffer(BUFLEN), 0)))

do_conv_numeric(pspec, as, i, code, k, base) ==
    NumConv(pspec, as, i, code, k, base, Magnitude(pspec, va_arg(as, i).v),
            SignChar(pspec, va_arg(as, i).v))

(***************************************************************************)
(* Floating point (format_fp.c), for a platform whose double is the 32-bit *)
(* IEEE 754 format.  A double argument is the triple of its bit fields.    *)
(***************************************************************************)
DEC_SIG_FIG == 9

DEC_1P0 == 100000000

BIN_EXP_WIDTH == 8

BIN_EXP_BIAS == 127

BIN_MANT_WIDTH == 23

BIN_EXP_MASK == 2^BIN_EXP_WIDTH - 1

INT_MAX == 2147483647

COMP_EXP_LIMIT == 24

FpArg(sign, expo, mant) ==
    [t |-> "fp", v |-> [sign |-> sign, expo |-> expo, mant |-> mant]]

DEC_FP_IS_NAN(s, m, e) == e = INT_MAX /\ m # 0

DEC_FP_IS_INF(s, m, e) == e = INT_MAX /\ m = 0

RECURSIVE Pow10(_)
Pow10(n) == IF n <= 0 THEN 1 ELSE 10 * Pow10(n - 1)

\* the denormal loop: shift until the top bit of the mantissa field is set
RECURSIVE Normalise(_, _)
Normalise(m, e) ==
    IF m \div 2^(BIN_MANT_WIDTH - 1) = 0
    THEN Normalise((m * 2) % 2^BIN_MANT_WIDTH, e - 1)
    ELSE [m |-> m, e |-> e]

\* STEP 1: the fraction bits, most significant first, each worth half of
\* the one before
RECURSIVE MantStep(_, _, _)
MantStep(m, dec, inc) ==
    IF m = 0 THEN dec
    ELSE LET d2 == IF m \div 2^(BIN_MANT_WIDTH - 1) = 1 THEN dec + inc
                                                        ELSE dec
             i2 == (inc + 1) \div 2
         IN  \* both sums are taken before the next bit is looked at
             CASE d2 + i2 \in Int ->
                    MantStep((m * 2) % 2^BIN_MANT_WIDTH, d2, i2)

\* STEP 2: the base-2 exponent is worked off one power of two at a time.
\* ExpUp and ExpDown are the bodies of the two for loops on r = [mantissa,
\* exponent]; n passes of a loop are its first n \div 2 passes followed by
\* the rest.
ExpUp(r) ==
    IF r.mantissa * 2 >= DEC_1P0 * 10
    THEN [mantissa |-> (r.mantissa * 2 + 5) \div 10,
          exponent |-> r.exponent + 1]
    ELSE [mantissa |-> r.mantissa * 2, exponent |-> r.exponent]

ExpDown(r) ==
    IF r.mantissa < DEC_1P0 * 2
    THEN [mantissa |-> (r.mantissa * 10 + 1) \div 2,
          exponent |-> r.exponent - 1]
    ELSE [mantissa |-> (r.mantissa + 1) \div 2, exponent |-> r.exponent]

RECURSIVE ExpPasses(_, _, _)
ExpPasses(up, n, r) ==
    IF n = 0 THEN r
    ELSE IF n = 1 THEN (IF up THEN ExpUp(r) ELSE ExpDown(r))
    ELSE LET half == ExpPasses(up, n \div 2, r)
         IN  CASE half.exponent \in Int -> ExpPasses(up, n - n \div 2, half)

ExpStep(be, dm, de) ==
    ExpPasses(be > 0, ABS(be), [mantissa |-> dm, exponent |-> de])

radix_convert(v) ==
    IF v.expo = BIN_EXP_MASK
    THEN [sign |-> v.sign, mantissa |-> v.mant, exponent |-> INT_MAX]
    ELSE IF v.mant = 0 /\ v.expo = 0
    THEN [sign |-> v.sign, mantissa |-> 0, exponent |-> 0]
    ELSE LET den == v.expo = 0
             nrm == IF den THEN Normalise(v.mant, 1)
                           ELSE [m |-> v.mant, e |-> v.expo]
             d0  == IF den THEN 0 ELSE DEC_1P0
             d1  == MantStep(nrm.m, d0, (DEC_1P0 + 1) \div 2)
             r   == ExpStep(nrm.e - BIN_EXP_BIAS, d1, 0)
         IN  [sign |-> v.sign, mantissa |-> r.mantissa,
              exponent |-> r.exponent]

\* the digits_to_convert digits of m that remain when the digits beyond
\* digits_total - digits_to_convert have been dropped
mant_to_char(m, digits_total, digits_to_convert) ==
    LET m1 == m \div Pow10(digits_total - digits_to_convert)
    IN  [i \in 1..digits_to_convert |->
            digits[((m1 \div Pow10(digits_to_convert - i)) % 10) + 1]]

SignPfx(pspec, sign) ==
    IF sign # 0 THEN <<"-">>
    ELSE IF FPLUS \in pspec.flags THEN <<"+">>
    ELSE IF FSPACE \in pspec.flags THEN <<" ">>
    ELSE <<>>

do_conv_infnan(pspec, code, k, sign, mantissa, exponent) ==
    LET low == code = "f" \/ code = "e" \/ code = "g"
        e_s == IF DEC_FP_IS_NAN(sign, mantissa, exponent)
               THEN (IF low THEN <<"n", "a", "n">> ELSE <<"N", "A", "N">>)
               ELSE (IF low THEN <<"i", "n", "f">> ELSE <<"I", "N", "F">>)
        e_n == STRLEN(e_s)
        pfx_s == SignPfx(pspec, sign)
        pfx_n == STRLEN(pfx_s)
        sp  == calc_space_padding(pspec, e_n + pfx_n)
    IN  [k |-> gen_out(k, sp.ps1, pfx_s, pfx_n, 0, e_s, e_n, sp.ps2),
         pspec |-> pspec,
         sec |-> [ps1 |-> sp.ps1, pfx |-> pfx_s, pz |-> 0, body |-> e_s,
                  ps2 |-> sp.ps2, length |-> e_n + pfx_n]]

round_mantissa(mantissa, exponent, prec, is_f, compressed) ==
    LET e0 == IF compressed
              THEN (exponent % 3)
                   + (IF is_f /\ ABS(exponent) > COMP_EXP_LIMIT
                      THEN ABS(exponent) - COMP_EXP_LIMIT ELSE 0)
              ELSE exponent
        e1 == IF is_f THEN e0 ELSE ABS(IF e0 < 0 THEN e0 + 1 ELSE e0)
        shift == MAX(e1 + prec + 1, 0)
        addend == IF shift > DEC_SIG_FIG THEN 0
                  ELSE (DEC_1P0 * 5) \div Pow10(shift)
        m1 == mantissa + addend
    IN  IF m1 >= DEC_1P0 * 10
        THEN [mantissa |-> (m1 + 5) \div 10, exponent |-> exponent + 1]
        ELSE [mantissa |-> m1, exponent |-> exponent]

\* trailing zeros are trimmed from the mantissa: the significant figures left
RECURSIVE TrimZeros(_, _)
TrimZeros(m, sigfig) ==
    IF sigfig > 0 /\ m % 10 = 0 THEN TrimZeros(m \div 10, sigfig - 1)
    ELSE [mantissa |-> m, sigfig |-> sigfig]

sitab == << "y", "z", "a", "f", "p", "n", "u", "m", NUL,
            "k", "M", "G", "T", "P", "E", "Z", "Y" >>

\* the walk along sitab, three decades a step
RECURSIVE SiWalk(_, _)
SiWalk(idx, exponent) ==
    IF idx > 0 /\ idx < Len(sitab) - 1
    THEN IF exponent >= 3 THEN SiWalk(idx + 1, exponent - 3)
         ELSE IF exponent < 0 THEN SiWalk(idx - 1, exponent + 3)
         ELSE [idx |-> idx, exponent |-> exponent]
    ELSE [idx |-> idx, exponent |-> exponent]

\* the g-as-f conversion strips trailing zeros of the digits on the right
RECURSIVE StripRight(_, _)
StripRight(m, n_right) ==
    IF n_right > 0 /\ m % 10 = 0 THEN StripRight(m \div 10, n_right - 1)
    ELSE n_right

\* (NumDigits_Three: a variant that always counts three digits)
NumDigits_Three(i) == 3

RECURSIVE NumDigits(_)
NumDigits(i) == IF i > 0 THEN 1 + NumDigits(i \div 10) ELSE 0

\* one more gen_out call of a converter: a holds the sink and the count
NextOutWith(a, g) ==
    [k |-> g, count |-> IF g.rc = EXBADFORMAT THEN a.count
                        ELSE a.count + g.rc]

NextOut(a, ps1, pfx_s, pfx_n, pz, e_s, e_n, ps2) ==
    IF a.k.rc = EXBADFORMAT THEN a
    ELSE NextOutWith(a, gen_out(a.k, ps1, pfx_s, pfx_n, pz, e_s, e_n, ps2))

IsG(code) == code = "g" \/ code = "G"

IsF(code) == code = "f" \/ code = "F"

\* g and G: a precision of zero is taken as 1 (the default is applied later)
EfgPrec0(pspec, code0) ==
    IF IsG(code0) /\ pspec.prec = 0 THEN 1 ELSE pspec.prec

\* g and G become e, E or f, F; the ! flag is turned off for them and the
\* default precision is applied
EfgStyle(pspec, code0, exponent) ==
    [really_g |-> IsG(code0),
     flags |-> IF IsG(code0) THEN pspec.flags \ {FBANG} ELSE pspec.flags,
     code |-> IF IsG(code0)
              THEN (IF exponent < -4 \/ exponent >= EfgPrec0(pspec, code0)
                    THEN (IF code0 = "g" THEN "e" ELSE "E")
                    ELSE (IF code0 = "g" THEN "f" ELSE "F"))
              ELSE code0,
     prec |-> IF EfgPrec0(pspec, code0) < 0 THEN 6
              ELSE EfgPrec0(pspec, code0)]

\* the SI multiplier of f with !, the multiple-of-three exponent of e with !,
\* and the number of digits left of the decimal point
EfgScaleF(st, sw) ==
    [si |-> sitab[sw.idx + 1], exponent |-> sw.exponent,
     n_left |-> IF sw.exponent > -1 THEN 1 + sw.exponent ELSE 0]

EfgScale(st, exponent) ==
    IF IsF(st.code)
    THEN EfgScaleF(st, IF FBANG \in st.flags
                       THEN SiWalk(Len(sitab) \div 2, exponent)
                       ELSE [idx |-> Len(sitab) \div 2,
                             exponent |-> exponent])
    ELSE IF FBANG \in st.flags
    THEN [si |-> NUL, exponent |-> exponent - (exponent % 3),
          n_left |-> 1 + (exponent % 3)]
    ELSE [si |-> NUL, exponent |-> exponent, n_left |-> 1]

\* the digits right of the decimal point; the g-as-f conversion strips the
\* extraneous digits and the trailing zeros
EfgRight0(st, tz, sc) == MIN(MAX(tz.sigfig - sc.n_left, 0), st.prec)

EfgRight(st, tz, sc) ==
    IF IsF(st.code) /\ st.really_g
    THEN StripRight(tz.mantissa
                      \div Pow10(tz.sigfig
                                 - (sc.n_left + EfgRight0(st, tz, sc))),
                    EfgRight0(st, tz, sc))
    ELSE EfgRight0(st, tz, sc)

\* the zero paddings in front of the digits and around the decimal point,
\* the exponent digits and the length so far
EfgZeros(st, tz, sc, pfx_n, n_right) ==
    [pz1 |-> IF IsF(st.code) /\ sc.n_left = 0 THEN 1 ELSE 0,
     pz2 |-> IF IsF(st.code) /\ sc.n_left > tz.sigfig
             THEN sc.n_left - tz.sigfig ELSE 0,
     pz3 |-> IF IsF(st.code) /\ sc.exponent < -1 /\ st.prec > 0
             THEN MIN(-1 - sc.exponent, st.prec) ELSE 0,
     n_exp |-> IF IsF(st.code) THEN 0
               ELSE MAX(NumDigits(ABS(sc.exponent)), 2),
     n_right |-> n_right,
     length |-> pfx_n + sc.n_left + n_right]

EfgLength(st, sc, z) ==
    [z EXCEPT !.length = z.length + z.pz1 + z.pz3
                         + (IF IsF(st.code) /\ sc.si # NUL THEN 2 ELSE 0)
                         + (IF IsF(st.code) THEN 0 ELSE 2 + z.n_exp)]

\* the trailing zeros, or the digits on the right cut to the precision
EfgTrail(st, z) ==
    IF z.pz3 + z.n_right < st.prec /\ ~(st.really_g /\ FHASH \notin st.flags)
    THEN [pz1 |-> z.pz1, pz2 |-> z.pz2, pz3 |-> z.pz3, n_exp |-> z.n_exp,
          n_right |-> z.n_right, pz4 |-> st.prec - z.pz3 - z.n_right,
          length |-> z.length + st.prec - z.pz3 - z.n_right]
    ELSE IF IsF(st.code) /\ z.pz3 + z.n_right > st.prec
    THEN [pz1 |-> z.pz1, pz2 |-> z.pz2, pz3 |-> z.pz3, n_exp |-> z.n_exp,
          n_right |-> z.n_right - (z.pz3 + z.n_right - st.prec), pz4 |-> 0,
          length |-> z.length - (z.pz3 + z.n_right - st.prec)]
    ELSE [pz1 |-> z.pz1, pz2 |-> z.pz2, pz3 |-> z.pz3, n_exp |-> z.n_exp,
          n_right |-> z.n_right, pz4 |-> 0, length |-> z.length]

\* (EfgWantDp_Always: a variant that always prints the decimal point)
EfgWantDp_Always(st, z) == TRUE

\* the decimal point is wanted if anything follows it or with the # flag
EfgWantDp(st, z) ==
    z.pz3 # 0 \/ z.pz4 # 0 \/ z.n_right > 0 \/ FHASH \in st.flags

EfgLayout(st, tz, sc, pfx_n) ==
    EfgTrail(st, EfgLength(st, sc, EfgZeros(st, tz, sc, pfx_n,
                                            EfgRight(st, tz, sc))))

\* the digits left of the decimal point
EfgLeftN(sc, z) == IF sc.n_left # 0 THEN sc.n_left - z.pz2 ELSE 0

\* the exponent section: 'e' or 'E', the sign and the digits
EfgExpOut(a, st, sc, z) ==
    IF z.n_exp # 0
    THEN NextOut(a, 0, <<st.code, IF sc.exponent < 0 THEN "-" ELSE "+">>, 2,
                 0, mant_to_char(ABS(sc.exponent), z.n_exp, z.n_exp),
                 z.n_exp, 0)
    ELSE a

\* the text the sections make, from the first digit to the SI multiplier
EfgBody(st, tz, sc, z) ==
    mant_to_char(tz.mantissa, tz.sigfig, EfgLeftN(sc, z))
    \o Rep("0", z.pz2)
    \o (IF EfgWantDp(st, z) THEN <<".">> ELSE <<>>)
    \o Rep("0", z.pz3)
    \o mant_to_char(tz.mantissa, tz.sigfig - EfgLeftN(sc, z), z.n_right)
    \o Rep("0", z.pz4)
    \o (IF z.n_exp # 0
        THEN <<st.code, IF sc.exponent < 0 THEN "-" ELSE "+">>
             \o mant_to_char(ABS(sc.exponent), z.n_exp, z.n_exp)
        ELSE <<>>)
    \o (IF sc.si # NUL THEN <<" ", sc.si>> ELSE <<>>)

EfgResult(a, ps, sec) ==
    [k |-> IF a.k.rc = EXBADFORMAT THEN a.k ELSE [a.k EXCEPT !.rc = a.count],
     pspec |-> ps, sec |-> sec]

\* the output sections: left, zeros before the decimal point, right,
\* trailing zeros, exponent, SI multiplier and trailing space
EfgOut(k, ps, pfx_s, st, tz, sc, z, sp) ==
    EfgResult(
      NextOut(
        EfgExpOut(
          NextOut(
            NextOut(
              NextOut(
                NextOut([k |-> [k EXCEPT !.rc = 0], count |-> 0],
                        IF FZERO \in st.flags THEN 0 ELSE sp.ps1,
                        pfx_s, STRLEN(pfx_s),
                        z.pz1 + (IF FZERO \in st.flags THEN sp.ps1 ELSE 0),
                        mant_to_char(tz.mantissa, tz.sigfig,
                                     EfgLeftN(sc, z)),
                        EfgLeftN(sc, z), 0),
                0, NULLP, 0, z.pz2, NULLP, 0, 0),
              0, <<".">>, IF EfgWantDp(st, z) THEN 1 ELSE 0, z.pz3,
              mant_to_char(tz.mantissa, tz.sigfig - EfgLeftN(sc, z),
                           z.n_right),
              z.n_right, 0),
            0, NULLP, 0, z.pz4, NULLP, 0, 0),
          st, sc, z),
        IF sc.si # NUL THEN 1 ELSE 0, NULLP, 0, 0, <<sc.si>>,
        IF sc.si # NUL THEN 1 ELSE 0, sp.ps2),
      ps,
      [ps1 |-> IF FZERO \in st.flags THEN 0 ELSE sp.ps1,
       pfx |-> pfx_s,
       pz |-> z.pz1 + (IF FZERO \in st.flags THEN sp.ps1 ELSE 0),
       body |-> EfgBody(st, tz, sc, z),
       ps2 |-> sp.ps2,
       length |-> z.length + (IF EfgWantDp(st, z) THEN 1 ELSE 0)])

EfgPad(k, ps, pfx_s, st, tz, sc, z) ==
    EfgOut(k, ps, pfx_s, st, tz, sc, z,
           calc_space_padding(ps, z.length
                                  + (IF EfgWantDp(st, z) THEN 1 ELSE 0)))

EfgDigits(k, ps, pfx_s, st, tz, sc) ==
    EfgPad(k, ps, pfx_s, st, tz, sc, EfgLayout(st, tz, sc, STRLEN(pfx_s)))

\* the mantissa is rounded, its trailing zeros are trimmed
EfgRound(k, ps, sign, st, rm) ==
    EfgDigits(k, ps, SignPfx(ps, sign), st,
              IF rm.mantissa # 0 THEN TrimZeros(rm.mantissa, DEC_SIG_FIG)
              ELSE [mantissa |-> rm.mantissa, sigfig |-> 0],
              EfgScale(st, rm.exponent))

EfgStyled(pspec, k, sign, mantissa, exponent, st) ==
    EfgRound(k, [pspec EXCEPT !.flags = st.flags, !.prec = st.prec], sign,
             st, round_mantissa(mantissa, exponent, st.prec, IsF(st.code),
                                FBANG \in st.flags))

do_conv_efg(pspec, code, k, sign, mantissa, exponent) ==
    EfgStyled(pspec, k, sign, mantissa, exponent,
              EfgStyle(pspec, code, exponent))

FpDone(r, i) ==
    [k |-> r.k, ap |-> i + 1, pspec |-> r.pspec, sec |-> r.sec,
     oob |-> FALSE]

FpConv(pspec, i, code, k, d) ==
    IF DEC_FP_IS_NAN(d.sign, d.mantissa, d.exponent)
       \/ DEC_FP_IS_INF(d.sign, d.mantissa, d.exponent)
    THEN FpDone(do_conv_infnan(pspec, code, k, d.sign, d.mantissa,
                               d.exponent), i)
    ELSE FpDone(do_conv_efg(pspec, code, k, d.sign, d.mantissa, d.exponent),
                i)

do_conv_fp(pspec, as, i, code, k) ==
    IF pspec.qual = "L"
    THEN [k |-> [k EXCEPT !.rc = EXBADFORMAT], ap |-> i, pspec |-> pspec,
          sec |-> NoSec, oob |-> FALSE]
    ELSE FpConv(pspec, i, code, k, radix_convert(va_arg(as, i).v))

SIZEOF_PTR == 4

SIZEOF_INT == 4

IsFpCode(code) == code = "e" \/ code = "E" \/ code = "f" \/ code = "F"
                  \/ code = "g" \/ code = "G"

do_conv(pspec, as, i, code, k) ==
    IF code = "n" THEN do_conv_n(pspec, as, i)
    ELSE IF code = "%"
    THEN [k |-> gen_out(k, 0, NULLP, 0, 0, <<code>>, 1, 0), ap |-> i,
          pspec |-> pspec, sec |-> [NoSec EXCEPT !.body = <<code>>,
                                                 !.length = 1],
          oob |-> FALSE]
    ELSE IF code = "c" \/ code = "C" THEN do_conv_c(pspec, as, i, code, k)
    ELSE IF code = "s" THEN do_conv_s(pspec, as, i, code, k)
    ELSE IF IsFpCode(code) THEN do_conv_fp(pspec, as, i, code, k)
    ELSE
    LET isp   == code = "p"
        code1 == IF isp THEN "X" ELSE code
        ps1   == IF isp
                 THEN [pspec EXCEPT
                         !.qual = IF SIZEOF_PTR > SIZEOF_INT THEN "l" ELSE NUL,
                         !.flags = {FHASH, FBANG},
                         !.width = SIZEOF_PTR * 2,
                         !.prec = SIZEOF_PTR * 2]
                 ELSE pspec
        sgn   == code1 = "d" \/ code1 = "i" \/ code1 = "I"
        ps2   == IF sgn
                 THEN [ps1 EXCEPT !.flags = (ps1.flags \cup {F_IS_SIGNED})
                                            \ {FHASH}]
                 ELSE ps1
        base  == IF sgn
                 THEN (IF (code1 = "i" \/ code1 = "I") /\ ps2.base # 0
                       THEN ps2.base ELSE 10)
                 ELSE IF code1 = "x" \/ code1 = "X" THEN 16
                 ELSE IF code1 = "u" \/ code1 = "U"
                 THEN (IF ps2.base # 0 THEN ps2.base ELSE 10)
                 ELSE IF code1 = "o" THEN 8
                 ELSE IF code1 = "b" THEN 2
                 ELSE 0
    IN  IF base > 1 THEN do_conv_numeric(ps2, as, i, code1, k, base)
        ELSE [k |-> [k EXCEPT !.rc = EXBADFORMAT], ap |-> i, pspec |-> ps2,
              sec |-> NoSec, oob |-> FALSE]

(***************************************************************************)
(* The conversion specification parser of format()                         *)
(***************************************************************************)
\* the flag loop: the flags seen and the position after them
RECURSIVE ParseFlags(_, _, _)
ParseFlags(s, p, flags) ==
    LET c == READ_CHAR(s, p)
    IN  IF c # NUL /\ STRCHR(fchar, c) # 0
        THEN ParseFlags(s, p + 1, flags \cup {fbit[STRCHR(fchar, c)]})
        ELSE [flags |-> flags, p |-> p]

\* for ( v = 0; (c = *p) && ISDIGIT(c) && v < max; p++ ) v = v * 10 + c - '0'
RECURSIVE ParseNum(_, _, _, _)
ParseNum(s, p, v, max) ==
    LET c == READ_CHAR(s, p)
    IN  IF c # NUL /\ ISDIGIT(c) /\ v < max
        THEN ParseNum(s, p + 1, v * 10 + DigitVal(c), max)
        ELSE [v |-> v, p |-> p]

\* the scan to the end of the grouping string: the position of ']' or NUL
RECURSIVE ScanGroup(_, _)
ScanGroup(s, p) ==
    LET c == READ_CHAR(s, p)
    IN  IF c # NUL /\ c # "]" THEN ScanGroup(s, p + 1) ELSE p

EmptySpec == [nChars |-> 0, flags |-> {}, width |-> 0, prec |-> -1,
              base |-> 0, qual |-> NUL, repchar |-> NUL, grouping |-> <<>>]

\* The result of the parse of a conversion specification: err (BAD_FORMAT
\* is returned), cont (continuation), the format specification, the
\* conversion letter, its position and the argument cursor.
ParseErr(p, i) == [err |-> TRUE, cont |-> FALSE, spec |-> EmptySpec,
                   code |-> NUL, p |-> p, ap |-> i]

\* the conversion letter, the end of the template, or %C and its character
ParseConv(s, sp, p, i) ==
    IF READ_CHAR(s, p) = NUL
    THEN [err |-> FALSE, cont |-> TRUE, spec |-> sp, code |-> NUL, p |-> p,
          ap |-> i]
    ELSE IF READ_CHAR(s, p) = "C" /\ READ_CHAR(s, p + 1) = NUL
    THEN ParseErr(p + 1, i)
    ELSE [err |-> FALSE, cont |-> FALSE,
          spec |-> [sp EXCEPT !.repchar = IF READ_CHAR(s, p) = "C"
                                          THEN READ_CHAR(s, p + 1) ELSE NUL],
          code |-> READ_CHAR(s, p),
          p |-> IF READ_CHAR(s, p) = "C" THEN p + 1 ELSE p,
          ap |-> i]

\* the length qualifier: one of hljztL, possibly doubled
HasQual(s, p) ==
    READ_CHAR(s, p) # NUL
    /\ STRCHR(<<"h", "l", "j", "z", "t", "L">>, READ_CHAR(s, p)) # 0

QualLen(s, p) ==
    IF ~HasQual(s, p) THEN 0
    ELSE IF READ_CHAR(s, p + 1) = READ_CHAR(s, p) THEN 2
    ELSE 1

ParseQual(s, sp, p, i) ==
    ParseConv(s,
              [sp EXCEPT !.qual = IF QualLen(s, p) = 0 THEN NUL
                                  ELSE IF QualLen(s, p) = 2
                                  THEN DOUBLE_QUAL(READ_CHAR(s, p))
                                  ELSE READ_CHAR(s, p)],
              p + QualLen(s, p), i)

\* the grouping modifier: everything between '[' and ']'
\* (ParseGrouping_Lenient: a variant that skips a '[' whose ']' is missing)
ParseGrouping_Lenient(s, sp, p, i) ==
    IF READ_CHAR(s, p) # "["
    THEN ParseQual(s, [sp EXCEPT !.grouping = <<>>], p, i)
    ELSE IF READ_CHAR(s, ScanGroup(s, p + 1)) = NUL
    THEN ParseQual(s, [sp EXCEPT !.grouping = <<>>], p + 1, i)
    ELSE ParseQual(s, [sp EXCEPT !.grouping =
                                   SubSeq(s, p + 1, ScanGroup(s, p + 1) - 1)],
                   ScanGroup(s, p + 1) + 1, i)

ParseGrouping(s, sp, p, i) ==
    IF READ_CHAR(s, p) # "["
    THEN ParseQual(s, [sp EXCEPT !.grouping = <<>>], p, i)
    ELSE IF READ_CHAR(s, ScanGroup(s, p + 1)) = NUL
    THEN ParseErr(ScanGroup(s, p + 1), i)
    ELSE ParseQual(s, [sp EXCEPT !.grouping =
                                   SubSeq(s, p + 1, ScanGroup(s, p + 1) - 1)],
                   ScanGroup(s, p + 1) + 1, i)

\* (BaseCheck_Strict: a variant that rejects the base 36 as well)
BaseCheck_Strict(s, sp, p, i) ==
    IF sp.base >= MAXBASE THEN ParseErr(p, i) ELSE ParseGrouping(s, sp, p, i)

BaseCheck(s, sp, p, i) ==
    IF sp.base > MAXBASE THEN ParseErr(p, i) ELSE ParseGrouping(s, sp, p, i)

\* the base modifier: ':' and digits or '*'
ParseBase(s, as, sp, p, i) ==
    IF READ_CHAR(s, p) # ":"
    THEN BaseCheck(s, [sp EXCEPT !.base = 0], p, i)
    ELSE IF READ_CHAR(s, p + 1) = "*"
    THEN BaseCheck(s, [sp EXCEPT !.base = MAX(va_arg(as, i).v, 0)],
                   p + 2, i + 1)
    ELSE BaseCheck(s, [sp EXCEPT !.base = ParseNum(s, p + 1, 0, MAXBASE).v],
                   ParseNum(s, p + 1, 0, MAXBASE).p, i)

PrecCheck(s, as, sp, p, i) ==
    IF sp.prec > MAXPREC THEN ParseErr(p, i) ELSE ParseBase(s, as, sp, p, i)

\* the precision: '.' and digits or '*'
ParsePrec(s, as, sp, p, i) ==
    PrecCheck(s, as,
              [sp EXCEPT !.prec = IF READ_CHAR(s, p) # "." THEN -1
                                  ELSE IF READ_CHAR(s, p + 1) = "*"
                                  THEN va_arg(as, i).v
                                  ELSE ParseNum(s, p + 1, 0, MAXPREC).v],
              IF READ_CHAR(s, p) # "." THEN p
              ELSE IF READ_CHAR(s, p + 1) = "*" THEN p + 2
              ELSE ParseNum(s, p + 1, 0, MAXPREC).p,
              IF READ_CHAR(s, p) = "." /\ READ_CHAR(s, p + 1) = "*"
              THEN i + 1 ELSE i)

\* (WidthCheck_Strict: a variant that rejects the limit itself)
WidthCheck_Strict(s, as, sp, p, i) ==
    IF sp.width >= MAXWIDTH THEN ParseErr(p, i)
    ELSE ParsePrec(s, as, sp, p, i)

WidthCheck(s, as, sp, p, i) ==
    IF sp.width > MAXWIDTH THEN ParseErr(p, i) ELSE ParsePrec(s, as, sp, p, i)

\* the width: digits, or '*' (a negative argument sets the - flag)
ParseWidth(s, as, sp, p, i) ==
    IF READ_CHAR(s, p) = "*"
    THEN WidthCheck(s, as,
                    [sp EXCEPT !.width = ABS(va_arg(as, i).v),
                               !.flags = IF va_arg(as, i).v < 0
                                         THEN sp.flags \cup {FMINUS}
                                         ELSE sp.flags],
                    p + 1, i + 1)
    ELSE WidthCheck(s, as,
                    [sp EXCEPT !.width = ParseNum(s, p, 0, MAXWIDTH).v],
                    ParseNum(s, p, 0, MAXWIDTH).p, i)

\* s[p0] is the '%'
ParseSpec(s, p0, as, i0, nChars) ==
    ParseWidth(s, as,
               [EmptySpec EXCEPT !.nChars = nChars,
                                 !.flags = ParseFlags(s, p0 + 1, {}).flags],
               ParseFlags(s, p0 + 1, {}).p, i0)

(***************************************************************************)
(* The call format( cons, arg, fmt, ap ) as a state machine                *)
(***************************************************************************)
NoRet == EXBADFORMAT - 1

\* the consumer may fail at any of its first MaxFailAt calls of a step
MaxFailAt == 3

NoLast == [code |-> NUL, spec |-> EmptySpec, sec |-> NoSec, rc |-> 0,
           from |-> 0, ap0 |-> 1, oob |-> FALSE]

\* the end of the run of ordinary characters that starts at p
RECURSIVE ScanRun(_, _)
ScanRun(s, p) ==
    LET c == READ_CHAR(s, p)
    IN  IF c # NUL /\ c # "%" THEN ScanRun(s, p + 1) ELSE p

SecText(sec) == Rep(" ", sec.ps1) \o sec.pfx \o Rep("0", sec.pz)
                \o sec.body \o Rep(" ", sec.ps2)

\* no second call, and do_conv_k is not running
NoOther == [pc |-> "none"]

NoFrame == [pc |-> "none"]

InitCall(cases) ==
    /\ other = NoOther
    /\ frame = NoFrame
    /\ \E c \in cases : fmt = c.fmt /\ args = c.args
    /\ ptr = 1
    /\ ap = 1
    /\ fspec = EmptySpec
    /\ conv = NUL
    /\ pc = "start"
    /\ out = <<>>
    /\ ret = NoRet
    /\ text = <<>>
    /\ last = NoLast
    /\ nfail = 0

(***************************************************************************)
(* The calls explored.  A call is a template and an argument list.  The    *)
(* families cross flags, widths and precisions with the conversions and a  *)
(* few argument values; MiscCases holds calls given one by one (the null   *)
(* template, continuations, groupings, malformed specifications and the    *)
(* widths and precisions around the limits).  Arguments of the unsigned    *)
(* conversions are kept in 0 .. INT_MAX.                                   *)
(***************************************************************************)
FlagStrs == { <<>>, <<"-">>, <<"0">>, <<"^">>, <<"-", "^">>, <<"+">>,
              <<" ">>, <<"#">>, <<"#", "!">>, <<"0", "-">>, <<"+", "0">>,
              <<"^", "0">>, <<"+", " ">>, <<"-", "^", "0">>, <<"^", "#">> }

WidthStrs == { <<>>, <<"3">>, <<"8">>, <<"9">> }

PrecStrs == { <<>>, <<".", "0">>, <<".", "4">> }

SignedConvs == { "d", "i" }

UnsignedConvs == { "u", "x", "X", "o", "b" }

FpConvs == { "e", "E", "f", "F", "g", "G" }

FpFlagStrs == { <<>>, <<"-">>, <<"0">>, <<"^">>, <<"-", "^">>, <<"+">>,
                <<"#">>, <<"!">> }

FpVals == { FpArg(0, 0, 0), FpArg(0, 127, 4194304), FpArg(1, 128, 2097152),
            FpArg(0, 140, 4252672), FpArg(0, 120, 4866735),
            FpArg(0, 126, 8220836), FpArg(0, 255, 0),
            FpArg(1, 255, 4194304) }

StrVals == { StrArg(<<"h", "e", "l", "l", "o">>), StrArg(<<>>), NullArg }

Tmpl(f, w, p, c) == <<"%">> \o f \o w \o p \o <<c>>

IntCases ==
    { [fmt |-> Tmpl(f, w, p, c), args |-> <<IntArg(v)>>] :
        f \in FlagStrs, w \in WidthStrs, p \in PrecStrs,
        c \in SignedConvs, v \in {0, 5, -42} }
    \cup
    { [fmt |-> Tmpl(f, w, p, c), args |-> <<IntArg(v)>>] :
        f \in FlagStrs, w \in WidthStrs, p \in PrecStrs,
        c \in UnsignedConvs, v \in {0, 5, 255} }

StrCases ==
    { [fmt |-> <<"[">> \o Tmpl(f, w, p, "s") \o <<"]">>, args |-> <<v>>] :
        f \in {<<>>, <<"-">>, <<"^">>, <<"-", "^">>, <<"0">>},
        w \in WidthStrs, p \in {<<>>, <<".", "2">>}, v \in StrVals }

FpCases ==
    { [fmt |-> Tmpl(f, w, p, c), args |-> <<v>>] :
        f \in FpFlagStrs, w \in {<<>>, <<"8">>, <<"1", "3">>},
        p \in {<<>>, <<".", "0">>, <<".", "2">>}, c \in FpConvs,
        v \in FpVals }

MiscCases ==
    { [fmt |-> NULLP,
       args |-> <<>>],
      [fmt |-> NULLP,
       args |-> <<IntArg(7)>>],
      [fmt |-> <<>>,
       args |-> <<>>],
      [fmt |-> <<"p", "l", "a", "i", "n", " ", "t", "e", "x", "t">>,
       args |-> <<>>],
      [fmt |-> <<"a", "%", "%", "b", "%", "c", ".">>,
       args |-> <<CharArg("x")>>],
      [fmt |-> <<"%", "5", ".", "3", "c", "|", "%", "-", "3", "c">>,
       args |-> <<CharArg("x"), CharArg("y")>>],
      [fmt |-> <<"%", "C", "z", "|", "%", ".", "3", "C", "*", "|", "%", "5", "C", "-">>,
       args |-> <<>>],
      [fmt |-> <<"n", "=", "%", "d", "%", "n", ";">>,
       args |-> <<IntArg(12), IntArg(0)>>],
      [fmt |-> <<"%", "p">>,
       args |-> <<IntArg(4660)>>],
      [fmt |-> <<"%", "s", " ", "a", "n", "d", " ", "%", "s">>,
       args |-> <<StrArg(<<"o", "n", "e">>), NullArg>>],
      [fmt |-> <<"h", "e", "l", "l", "o", " ", "%">>,
       args |-> <<StrArg(<<"w", "o", "r", "l", "d">>)>>],
      [fmt |-> <<"O", "n", "e", ":", " ", "%", "d", ",", "%">>,
       args |-> <<IntArg(1), StrArg(<<"T", "w", "o", ":", " ", "%", "c", ",", "%">>), CharArg("2"), StrArg(<<"T", "h", "r", "e", "e", ":", " ", "%", "s">>), StrArg(<<"3">>)>>],
      [fmt |-> <<"x", "%">>,
       args |-> <<StrArg(<<"%", "y">>)>>],
      [fmt |-> <<"a", "%", "3", "d", "%">>,
       args |-> <<IntArg(7),
                  StrArg(<<"b", "%", "-", "2", "0", "s", "|", "%", "0", "4", "0", "d">>),
                  StrArg(<<"x", "y">>), IntArg(-9)>>],
      [fmt |-> <<"h", "e", "l", "l", "o", " ", "%", " ", "+", "-", "!", "^", "1", "2", ".", "2", "4", "l">>,
       args |-> <<StrArg(<<"w", "o", "r", "l", "d", " ", "%", "d">>), IntArg(3)>>],
      [fmt |-> <<"%", "[", ",", "3", "]", "d", "|", "%", "[", ",", "3", ".", "2", "]", "d">>,
       args |-> <<IntArg(1234567), IntArg(1234567)>>],
      [fmt |-> <<"%", "[", "-", ",", "2", "]", "d", "|", "%", ".", "6", "[", "_", "2", "]", "d">>,
       args |-> <<IntArg(123456), IntArg(1234)>>],
      [fmt |-> <<"%", "[", ",", "*", "_", "*", "]", "d">>,
       args |-> <<IntArg(1234), IntArg(2), IntArg(1)>>],
      [fmt |-> <<"%", ":", "1", "6", "i", "|", "%", ":", "2", "u", "|", "%", ":", "*", "I">>,
       args |-> <<IntArg(255), IntArg(5), IntArg(36), IntArg(35)>>],
      [fmt |-> <<"%", "h", "d", "|", "%", "h", "h", "d", "|", "%", "l", "d", "|", "%", "l", "l", "d">>,
       args |-> <<IntArg(70000), IntArg(300), IntArg(7), IntArg(8)>>],
      [fmt |-> <<"%", "[", ",", "3", "d">>,
       args |-> <<IntArg(5)>>],
      [fmt |-> <<"a", "b", "%", "[">>,
       args |-> <<IntArg(5)>>],
      [fmt |-> <<"%", "-", "8", ".", "2", "[", "_", "2">>,
       args |-> <<IntArg(5)>>],
      [fmt |-> <<"a", "%", "d", "%", "[", ",", "3">>,
       args |-> <<IntArg(1)>>],
      [fmt |-> <<"%", "C">>,
       args |-> <<>>],
      [fmt |-> <<"a", "b", "%", "C">>,
       args |-> <<>>],
      [fmt |-> <<"%", "5", "C">>,
       args |-> <<>>],
      [fmt |-> <<"%", "d", "|", "%", "-", ".", "2", "C">>,
       args |-> <<IntArg(1)>>],
      [fmt |-> <<"%", "L", "f">>,
       args |-> <<FpArg(0, 127, 4194304)>>],
      [fmt |-> <<"a", "%", "8", ".", "2", "L", "e">>,
       args |-> <<FpArg(0, 127, 4194304)>>],
      [fmt |-> <<"%", "-", "L", "G">>,
       args |-> <<FpArg(0, 127, 4194304)>>],
      [fmt |-> <<"%", "L", "E", "|">>,
       args |-> <<FpArg(0, 127, 4194304)>>],
      [fmt |-> <<"%", "L", "g">>,
       args |-> <<FpArg(0, 127, 4194304)>>],
      [fmt |-> <<"%", "L", "F">>,
       args |-> <<FpArg(0, 127, 4194304)>>],
      [fmt |-> <<"%", "L", "L", "f">>,
       args |-> <<FpArg(0, 127, 4194304)>>],
      [fmt |-> <<"%", "y">>,
       args |-> <<IntArg(1)>>],
      [fmt |-> <<"%", ":", "1", "u">>,
       args |-> <<IntArg(1)>>],
      [fmt |-> <<"%", ":", "3", "7", "u">>,
       args |-> <<IntArg(1)>>],
      [fmt |-> <<"%", "5", "0", "0", "d">>,
       args |-> <<IntArg(7)>>],
      [fmt |-> <<"%", "5", "0", "1", "d">>,
       args |-> <<IntArg(7)>>],
      [fmt |-> <<"%", "5", "0", "0", "0", "d">>,
       args |-> <<IntArg(7)>>],
      [fmt |-> <<"%", "9", "9", "9", "d">>,
       args |-> <<IntArg(7)>>],
      [fmt |-> <<"%", "1", "0", "0", "0", "0", "0", "0", "d">>,
       args |-> <<IntArg(7)>>],
      [fmt |-> <<"%", "-", "5", "0", "0", "s", "|">>,
       args |-> <<StrArg(<<"a", "b">>)>>],
      [fmt |-> <<"%", "0", "5", "0", "0", "x">>,
       args |-> <<IntArg(255)>>],
      [fmt |-> <<"%", ".", "5", "0", "0", "d">>,
       args |-> <<IntArg(7)>>],
      [fmt |-> <<"%", ".", "5", "0", "1", "d">>,
       args |-> <<IntArg(7)>>],
      [fmt |-> <<"%", ".", "5", "0", "0", "0", "d">>,
       args |-> <<IntArg(7)>>],
      [fmt |-> <<"%", ".", "9", "9", "9", "s">>,
       args |-> <<StrArg(<<"a", "b">>)>>],
      [fmt |-> <<"%", "5", "0", "0", ".", "5", "0", "0", "d">>,
       args |-> <<IntArg(7)>>],
      [fmt |-> <<"%", "3", ".", "5", "0", "1", "f">>,
       args |-> <<FpArg(0, 127, 4194304)>>],
      [fmt |-> <<"%", ".", "5", "0", "0", "s">>,
       args |-> <<StrArg(<<"a", "b">>)>>],
      [fmt |-> <<"%", "*", "d">>,
       args |-> <<IntArg(500), IntArg(7)>>],
      [fmt |-> <<"%", "*", "d">>,
       args |-> <<IntArg(501), IntArg(7)>>],
      [fmt |-> <<"%", "*", "d">>,
       args |-> <<IntArg(-500), IntArg(7)>>],
      [fmt |-> <<"%", "*", "d">>,
       args |-> <<IntArg(-501), IntArg(7)>>],
      [fmt |-> <<"%", "*", "d">>,
       args |-> <<IntArg(100000), IntArg(7)>>],
      [fmt |-> <<"%", ".", "*", "d">>,
       args |-> <<IntArg(500), IntArg(7)>>],
      [fmt |-> <<"%", ".", "*", "d">>,
       args |-> <<IntArg(501), IntArg(7)>>],
      [fmt |-> <<"%", ".", "*", "d">>,
       args |-> <<IntArg(-1), IntArg(7)>>],
      [fmt |-> <<"%", ".", "*", "s">>,
       args |-> <<IntArg(70000), StrArg(<<"a", "b">>)>>],
      [fmt |-> <<"%", "*", ".", "*", "d">>,
       args |-> <<IntArg(9), IntArg(4), IntArg(7)>>],
      [fmt |-> <<"a", "b", "%", "5", "0", "2", "d">>,
       args |-> <<IntArg(7)>>],
      [fmt |-> <<"%", "5", "0", "0", "f">>,
       args |-> <<FpArg(0, 127, 4194304)>>] }

\* the base modifier: none, a bare ':', digits and '*', on i, I, u and U
BaseStrs == { <<>>, <<":">>, <<":", "0">>, <<":", "1">>, <<":", "2">>,
              <<":", "3">>, <<":", "1", "0">>, <<":", "1", "7">>,
              <<":", "3", "6">>, <<":", "0", "3", "6">>, <<":", "3", "7">>,
              <<":", "3", "6", "0">>, <<":", "9", "9", "9", "9">> }

BaseCases ==
    { [fmt |-> <<"%">> \o b \o <<c>>, args |-> <<IntArg(v)>>] :
        b \in BaseStrs, c \in {"i", "I", "u", "U"}, v \in {0, 16, 44027} }
    \cup
    { [fmt |-> <<"%">> \o b \o <<c>>, args |-> <<IntArg(v)>>] :
        b \in BaseStrs, c \in {"i", "I"}, v \in {-16, -1, -INT_MAX} }
    \cup
    { [fmt |-> <<"%", ":", "*", c>>, args |-> <<IntArg(b), IntArg(v)>>] :
        b \in {-1, 0, 1, 2, 16, 36, 37, 9999},
        c \in {"i", "I", "u", "U"}, v \in {0, 4, 44027} }
    \cup
    { [fmt |-> <<"%", "6", ".", "4", ":", "3", "6", "I", "|", "%", ":", "1", "7", "I">>,
       args |-> <<IntArg(44027), IntArg(-16)>>] }

\* the decimal numeral of a base
NumStr(b) ==
    IF b < 10 THEN <<digits[b + 1]>>
    ELSE <<digits[(b \div 10) + 1], digits[(b % 10) + 1]>>

\* "%:bi" for every base b and values at and near the ends of the range
RoundTripVals == { LONG_MIN, LONG_MIN + 1, -44027, -36, -1, 0, 1, 35, 36,
                   LONG_MAX - 1, LONG_MAX }

RoundTripCases ==
    { [fmt |-> <<"%", ":">> \o NumStr(b) \o <<"i">>, args |-> <<IntArg(v)>>] :
        b \in 2..MAXBASE, v \in RoundTripVals }
    \cup
    { [fmt |-> <<"%", "d">>, args |-> <<IntArg(LONG_MIN)>>],
      [fmt |-> <<"%", "h", "i", "|", "%", "h", "h", "i">>,
       args |-> <<IntArg(LONG_MIN + 32768), IntArg(-128)>>] }

\* grouping modifiers on d and x: the groups of the documentation and the
\* tests, a '-' with and without a width, zero and missing widths
GroupStrs == { <<",", "3">>, <<",", "3", ".", "2">>, <<"-", ",", "2">>,
               <<"_", "0">>, <<"_", "1">>, <<"_", "2">>, <<>>,
               <<"-", "_", "2", "_", "2">>, <<",", "3", "_", "0", ".", "2">>,
               <<"_", "0", ".", "2">>, <<"-", "2">>, <<"-", "2", ",", "3">>,
               <<",">>, <<",", "_", "2">>, <<"3">>, <<",", "1", "2">>,
               <<",", "0", "3">> }

GroupVals == { 0, 7, 1234, 123456, 1234567890, -1234567 }

GroupCases ==
    { [fmt |-> <<"%", "[">> \o g \o <<"]", c>>, args |-> <<IntArg(v)>>] :
        g \in GroupStrs, c \in {"d", "x"}, v \in GroupVals \cap (0..INT_MAX) }
    \cup
    { [fmt |-> <<"%", "[">> \o g \o <<"]", "d">>, args |-> <<IntArg(v)>>] :
        g \in GroupStrs, v \in GroupVals }

\* a precision together with a grouping modifier
PrecGroupCases ==
    { [fmt |-> <<"%">> \o w \o <<".">> \o p \o <<"[">> \o g \o <<"]", "d">>,
       args |-> <<IntArg(v)>>] :
        w \in {<<>>, <<"8">>, <<"-", "8">>, <<"0", "1", "2">>},
        p \in {<<>>, <<"3">>, <<"6">>, <<"1", "2">>},
        g \in {<<"_", "2">>, <<",", "3">>, <<",", "3", ".", "2">>,
               <<"-", ",", "2">>, <<"_", "0">>},
        v \in {0, 7, 1234, 1234567890, -1234567} }

\* group widths given by arguments, followed by a second conversion
StarCases ==
    { [fmt |-> <<"%", "[", ",", "*", "]", "d", "|", "%", "d">>,
       args |-> <<IntArg(v), IntArg(w), IntArg(9)>>] :
        v \in {0, 7, 1234, 1234567}, w \in {-1, 0, 2, 3} }
    \cup
    { [fmt |-> <<"%", "[", ",", "*", "_", "*", "]", "d", "|", "%", "d">>,
       args |-> <<IntArg(v), IntArg(w1), IntArg(w2), IntArg(9)>>] :
        v \in {0, 7, 1234, 1234567}, w1 \in {-1, 0, 2}, w2 \in {0, 3} }

\* continuation: "hello %", modifiers, the end of the template, and "world"
World == <<"w", "o", "r", "l", "d">>

HelloPct == <<"h", "e", "l", "l", "o", " ", "%">>

ContMods == { <<>>, <<" ", "+", "-", "!", "^", "1", "2", ".", "2", "4", "l">>,
              <<"5">>, <<"-", "0", "8", ".", "3", "h">>, <<"h", "h">>,
              <<".">>, <<"#">>, <<"5", "0", "0", ".", "5", "0", "0">>,
              <<"5", "0", "1">>, <<".", "5", "0", "1">>,
              <<"1", "0", "0", "0">>, <<"^", "9", "z">> }

ContCases ==
    { [fmt |-> HelloPct \o m, args |-> <<StrArg(t)>> \o a] :
        m \in ContMods, t \in {World, <<>>}, a \in {<<>>, <<IntArg(3)>>} }
    \cup
    { [fmt |-> HelloPct \o m,
       args |-> <<StrArg(World \o <<" ", "%", "d", "%", "5", "s">>),
                  IntArg(3), StrArg(<<"x">>)>>] : m \in ContMods }
    \cup
    { [fmt |-> HelloPct \o <<"*">>,
       args |-> <<IntArg(w), StrArg(World)>>] : w \in {-4, 0, 5, 501} }
    \cup
    { [fmt |-> HelloPct \o <<"*", ".", "*", "l">>,
       args |-> <<IntArg(5), IntArg(p), StrArg(World)>>] : p \in {-1, 3, 501} }
    \cup
    { [fmt |-> HelloPct,
       args |-> <<StrArg(<<"o", "l", "d", " ", "%">>), StrArg(World)>>] }

\* floating point values at the edges of rounding, of the g style rule and
\* of the SI multipliers: 0.999, 1234.5678, 1234.5, 9.9999, 99.95, 0.5,
\* 9.5, 0.0001, 123456, 999999.5, -0.012345, 1e24, 1e27, 1e30, 1e-24,
\* 1e-27, 1e-30, the largest finite value and the smallest denormal
FpEdgeVals == { FpArg(0, 126, 8371831), FpArg(0, 137, 1724971),
                FpArg(0, 137, 1724416), FpArg(0, 130, 2097047),
                FpArg(0, 133, 4712038), FpArg(0, 126, 0),
                FpArg(0, 130, 1572864), FpArg(0, 113, 5355287),
                FpArg(0, 143, 7413760), FpArg(0, 146, 7611384),
                FpArg(1, 120, 4866735), FpArg(0, 206, 5489180),
                FpArg(0, 216, 5163919), FpArg(0, 226, 4846282),
                FpArg(0, 47, 1752597), FpArg(0, 37, 1995986),
                FpArg(0, 27, 2245216), FpArg(0, 254, 8388607),
                FpArg(0, 0, 1) }

FpEdgePrecs == { <<>>, <<".", "0">>, <<".", "1">>, <<".", "2">>,
                 <<".", "3">>, <<".", "6">>, <<".", "1", "0">> }

FpEdgeCases ==
    { [fmt |-> Tmpl(f, <<>>, p, c), args |-> <<v>>] :
        f \in {<<>>, <<"!">>, <<"#">>}, p \in FpEdgePrecs,
        c \in {"e", "f", "g", "G"}, v \in FpEdgeVals \cup FpVals }

\* the longest numerals: the extreme values in the smallest bases, with a
\* separator after every digit or every other digit
BufEdgeVals == { LONG_MIN, LONG_MIN + 1, -1, 0, 1, LONG_MAX }

BufEdgeCases ==
    { [fmt |-> <<"%", ":">> \o NumStr(b) \o <<"[">> \o g \o <<"]", "i">>,
       args |-> <<IntArg(v)>>] :
        b \in {2, 3, 8, 16, 36},
        g \in {<<",", "1">>, <<"_", "1", ",", "2">>, <<".", "3", ",", "1">>},
        v \in BufEdgeVals }
    \cup
    { [fmt |-> <<"%", "[">> \o g \o <<"]", c>>, args |-> <<IntArg(v)>>] :
        g \in {<<",", "1">>, <<"_", "1", ",", "2">>},
        c \in {"b", "o", "x", "u"}, v \in {0, 1, LONG_MAX} }
    \cup
    { [fmt |-> <<"%", "[", ",", "*", "]", "b">>,
       args |-> <<IntArg(LONG_MAX), IntArg(w)>>] : w \in {-1, 0, 1, 2} }

Cases == IntCases \cup StrCases \cup FpCases \cup MiscCases \cup BaseCases
         \cup RoundTripCases \cup GroupCases \cup PrecGroupCases
         \cup StarCases \cup ContCases \cup FpEdgeCases
         \cup BufEdgeCases

Init == InitCall(Cases)

\* if ( fmt == NULL ) return EXBADFORMAT;
FormatNull ==
    /\ pc = "start"
    /\ fmt = NULLP
    /\ pc' = "done"
    /\ ret' = EXBADFORMAT
    /\ UNCHANGED <<fmt, ptr, args, ap, fspec, conv, out, text, last, nfail>>
    /\ UNCHANGED <<other, frame>>

\* fspec.nChars = 0; and the scan loop is entered
FormatBegin ==
    /\ pc = "start"
    /\ fmt # NULLP
    /\ pc' = "loop"
    /\ fspec' = [fspec EXCEPT !.nChars = 0]
    /\ UNCHANGED <<fmt, ptr, args, ap, conv, out, ret, text, last, nfail>>
    /\ UNCHANGED <<other, frame>>

\* the run of ordinary characters fmt[ptr .. e - 1] is sent to the consumer
\* in one call, k is the sink after it
LiteralRun(e, k) ==
    /\ out' = out \o k.calls
    /\ text' = text \o SubSeq(fmt, ptr, e - 1)
    /\ nfail' = IF k.rc < 0 THEN Len(out) + 1 ELSE nfail
    /\ IF k.rc < 0
       THEN /\ ret' = EXBADFORMAT
            /\ pc' = "done"
            /\ UNCHANGED <<ptr, fspec>>
       ELSE /\ fspec' = [fspec EXCEPT !.nChars = fspec.nChars + (e - ptr)]
            /\ ptr' = e
            /\ UNCHANGED <<ret, pc>>

Literal ==
    /\ pc = "loop"
    /\ READ_CHAR(fmt, ptr) # NUL
    /\ READ_CHAR(fmt, ptr) # "%"
    /\ \E failAt \in 0..1 :
         LiteralRun(ScanRun(fmt, ptr),
                    emit(Sink(failAt),
                         SubSeq(fmt, ptr, ScanRun(fmt, ptr) - 1),
                         ScanRun(fmt, ptr) - ptr))
    /\ UNCHANGED <<fmt, args, ap, conv, last>>
    /\ UNCHANGED <<other, frame>>

\* r is the result of the parse of the specification at ptr
ParseErrorOf(r) ==
    /\ r.err
    /\ ptr' = r.p
    /\ ap' = r.ap

\* a conversion specification that format() rejects while parsing it
ParseError ==
    /\ pc = "loop"
    /\ READ_CHAR(fmt, ptr) = "%"
    /\ ParseErrorOf(ParseSpec(fmt, ptr, args, ap, fspec.nChars))
    /\ ret' = EXBADFORMAT
    /\ pc' = "done"
    /\ UNCHANGED <<fmt, args, fspec, conv, out, text, last, nfail>>
    /\ UNCHANGED <<other, frame>>

\* (ContinuationOf_Restart: a variant that starts the count again)
ContinuationOf_Restart(r) ==
    /\ ~r.err
    /\ r.cont
    /\ fspec' = [r.spec EXCEPT !.nChars = 0]
    /\ fmt' = va_arg(args, r.ap).v
    /\ ap' = r.ap + 1

ContinuationOf(r) ==
    /\ ~r.err
    /\ r.cont
    /\ fspec' = r.spec
    /\ fmt' = va_arg(args, r.ap).v
    /\ ap' = r.ap + 1

\* the specification ends the template: the next argument continues it
Continuation ==
    /\ pc = "loop"
    /\ READ_CHAR(fmt, ptr) = "%"
    /\ ContinuationOf(ParseSpec(fmt, ptr, args, ap, fspec.nChars))
    /\ ptr' = 1
    /\ UNCHANGED <<args, conv, pc, out, ret, text, last, nfail>>
    /\ UNCHANGED <<other, frame>>

ParseOkOf(r) ==
    /\ ~r.err
    /\ ~r.cont
    /\ fspec' = r.spec
    /\ conv' = r.code
    /\ ptr' = r.p
    /\ ap' = r.ap

\* a conversion specification with its conversion letter
ParseOk ==
    /\ pc = "loop"
    /\ READ_CHAR(fmt, ptr) = "%"
    /\ ParseOkOf(ParseSpec(fmt, ptr, args, ap, fspec.nChars))
    /\ pc' = "conv"
    /\ UNCHANGED <<fmt, args, out, ret, text, last, nfail>>
    /\ UNCHANGED <<other, frame>>

\* r is the result of do_conv with a consumer that fails its call failAt
ConvertOf(r, failAt) ==
    /\ out' = out \o r.k.calls
    /\ ap' = r.ap
    /\ text' = text \o SecText(r.sec)
    /\ last' = [code |-> conv, spec |-> fspec, sec |-> r.sec,
                rc |-> r.k.rc, from |-> Len(out), ap0 |-> ap,
                oob |-> r.oob]
    /\ nfail' = IF failAt # 0 /\ Len(r.k.calls) >= failAt
                THEN Len(out) + failAt ELSE nfail
    /\ IF r.k.rc < 0
       THEN /\ ret' = EXBADFORMAT
            /\ pc' = "done"
            /\ fspec' = r.pspec
            /\ UNCHANGED ptr
       ELSE /\ fspec' = [r.pspec EXCEPT !.nChars = fspec.nChars + r.k.rc]
            /\ ptr' = ptr + 1
            /\ pc' = "loop"
            /\ UNCHANGED ret

\* the conversion at hand negates LONG_MIN: the behaviour is undefined
ConvOverflows ==
    /\ conv \in {"d", "i", "I"}
    /\ conv = "d" \/ fspec.base # 1
    /\ va_arg(args, ap).t = "int"
    /\ NegOverflow([fspec EXCEPT !.flags = {F_IS_SIGNED}], va_arg(args, ap).v)

\* a build that traps the overflow ends the program inside do_conv_numeric:
\* the call never returns
OverflowTrap ==
    /\ pc' = "abort"
    /\ last' = [code |-> conv, spec |-> fspec, sec |-> NoSec, rc |-> NoRet,
                from |-> Len(out), ap0 |-> ap, oob |-> FALSE]
    /\ UNCHANGED <<ptr, ap, fspec, out, ret, text, nfail>>

\* nn = do_conv( &fspec, VARGS(ap), convspec, cons, &arg );
\* Where do_conv_numeric negates LONG_MIN the step is either that of a build
\* that wraps or that of a build that traps.
Convert ==
    /\ pc = "conv"
    /\ \/ \E failAt \in 0..MaxFailAt :
            ConvertOf(do_conv(fspec, args, ap, conv, Sink(failAt)), failAt)
       \/ ConvOverflows /\ OverflowTrap
    /\ UNCHANGED <<fmt, args, conv>>
    /\ UNCHANGED <<other, frame>>

\* the end of the template: return fspec.nChars;
Return ==
    /\ pc = "loop"
    /\ READ_CHAR(fmt, ptr) = NUL
    /\ ret' = fspec.nChars
    /\ pc' = "done"
    /\ UNCHANGED <<fmt, ptr, args, ap, fspec, conv, out, text, last, nfail>>
    /\ UNCHANGED <<other, frame>>

Next == FormatNull \/ FormatBegin \/ Literal \/ ParseError \/ Continuation
        \/ ParseOk \/ Convert \/ Return

Spec == Init /\ [][Next]_vars

(***************************************************************************)
(* The tiny tier (tinyformat.c): 16-bit values, the flags ' ', '+', '-' and *)
(* '0', the conversions % c s p d u x X b.  T_FormatSpec keeps the width   *)
(* in a uint8_t and the precision in an int8_t.                            *)
(***************************************************************************)
TINY_MAXWIDTH == 80

TINY_MAXPREC == 80

TINY_BUFLEN == 16

tiny_fchar == << " ", "+", "-", "0" >>

tiny_fbit == << FSPACE, FPLUS, FMINUS, FZERO >>

\* the value of an int stored into a uint8_t
ToUint8(v) == v % 256

\* the value of an int stored into an int8_t
ToInt8(v) == IF v % 256 >= 128 THEN (v % 256) - 256 ELSE v % 256

\* if ( n > 0 && ( *parg = ( *cons )( *parg, s, n ) ) == NULL )
tiny_emit(k, s, n) ==
    IF k.rc < 0 \/ n = 0 THEN k
    ELSE [k EXCEPT !.calls = Append(k.calls, SubSeq(s, 1, n)),
                   !.rc = IF Len(k.calls) + 1 = k.failAt THEN EXBADFORMAT
                          ELSE 0]

\* for ( i = 0; i < n; i++ ) the consumer is called with the one character c
RECURSIVE tiny_pad(_, _, _)
tiny_pad(k, c, n) ==
    IF k.rc < 0 \/ n = 0 THEN k
    ELSE tiny_pad(tiny_emit(k, <<c>>, 1), c, n - 1)

TinyRet(k, n) == [k EXCEPT !.rc = IF k.rc < 0 THEN EXBADFORMAT ELSE n]

\* every step returns EXBADFORMAT as soon as the consumer has failed
tiny_gen_out(k, ps1, pfx_s, pfx_n, pz, e_s, e_n, ps2) ==
    TinyRet(tiny_pad(tiny_emit(tiny_pad(tiny_emit(tiny_pad(
        [k EXCEPT !.rc = 0], " ", ps1),
        pfx_s, IF pfx_s = NULLP THEN 0 ELSE pfx_n),
        "0", pz),
        e_s, e_n),
        " ", ps2),
        ps1 + pz + e_n + ps2 + (IF pfx_s = NULLP THEN 0 ELSE pfx_n))

tiny_calc_space_padding(pspec, length) ==
    [ps1 |-> IF FMINUS \in pspec.flags THEN 0
             ELSE MAX(0, pspec.width - length),
     ps2 |-> IF FMINUS \in pspec.flags THEN MAX(0, pspec.width - length)
             ELSE 0]

tiny_do_conv_c(pspec, as, i, k) ==
    [k |-> TinyRet(tiny_pad([k EXCEPT !.rc = 0], va_arg(as, i).v,
                            MAX(1, pspec.prec)),
                   MAX(1, pspec.prec)),
     ap |-> i + 1,
     pspec |-> pspec,
     sec |-> [NoSec EXCEPT !.body = Rep(va_arg(as, i).v, MAX(1, pspec.prec)),
                           !.length = MAX(1, pspec.prec)],
     oob |-> FALSE]

TinyStr(a) == IF a.t = "null" THEN <<"(", "n", "u", "l", "l", ")">> ELSE a.v

TinyStrOut(pspec, i, k, s, length, sp) ==
    [k |-> tiny_gen_out(k, sp.ps1, NULLP, 0, 0, s, length, sp.ps2),
     ap |-> i + 1,
     pspec |-> pspec,
     sec |-> [ps1 |-> sp.ps1, pfx |-> <<>>, pz |-> 0,
              body |-> SubSeq(s, 1, length), ps2 |-> sp.ps2,
              length |-> length],
     oob |-> FALSE]

TinyStrLen(pspec, s) ==
    IF pspec.prec >= 0 THEN MIN(pspec.prec, STRLEN(s)) ELSE STRLEN(s)

tiny_do_conv_s(pspec, as, i, k) ==
    TinyStrOut(pspec, i, k, TinyStr(va_arg(as, i)),
               TinyStrLen(pspec, TinyStr(va_arg(as, i))),
               tiny_calc_space_padding(
                   pspec, TinyStrLen(pspec, TinyStr(va_arg(as, i)))))

\* uv: the uint16_t that is converted
TinyMagnitude(pspec, raw) ==
    IF F_IS_SIGNED \in pspec.flags THEN ABS(ToShort(raw)) % 65536
    ELSE ToUShort(raw)

\* prefix[0]
TinySign(pspec, raw) ==
    IF F_IS_SIGNED \notin pspec.flags THEN NUL
    ELSE IF ToShort(raw) < 0 THEN "-"
    ELSE IF FPLUS \in pspec.flags THEN "+"
    ELSE IF FSPACE \in pspec.flags THEN " "
    ELSE NUL

\* the default precision, and the 0 flag that a given precision turns off
TinyNumSpec(pspec) ==
    [pspec EXCEPT !.prec = IF pspec.prec < 0 THEN 1 ELSE pspec.prec,
                  !.flags = IF pspec.prec < 0 THEN pspec.flags
                            ELSE pspec.flags \ {FZERO}]

TinyNumPad(ps, i, k, sgn, ex, numWidth, sp) ==
    [k |-> tiny_gen_out(k, IF FZERO \in ps.flags THEN 0 ELSE sp.ps1,
                        IF sgn # NUL THEN <<sgn>> ELSE NULLP,
                        IF sgn # NUL THEN 1 ELSE 0,
                        numWidth - ex.numWidth
                          + (IF FZERO \in ps.flags THEN sp.ps1 ELSE 0),
                        BufSlice(ex.buf, TINY_BUFLEN - ex.numWidth,
                                 ex.numWidth),
                        ex.numWidth, sp.ps2),
     ap |-> i + 1,
     pspec |-> ps,
     sec |-> [ps1 |-> IF FZERO \in ps.flags THEN 0 ELSE sp.ps1,
              pfx |-> IF sgn # NUL THEN <<sgn>> ELSE <<>>,
              pz |-> numWidth - ex.numWidth
                     + (IF FZERO \in ps.flags THEN sp.ps1 ELSE 0),
              body |-> BufSlice(ex.buf, TINY_BUFLEN - ex.numWidth,
                                ex.numWidth),
              ps2 |-> sp.ps2,
              length |-> (IF sgn # NUL THEN 1 ELSE 0) + numWidth],
     oob |-> ex.buf.oob]

TinyNumOut(ps, i, k, sgn, ex, numWidth) ==
    TinyNumPad(ps, i, k, sgn, ex, numWidth,
               tiny_calc_space_padding(
                   ps, (IF sgn # NUL THEN 1 ELSE 0) + numWidth))

TinyNumConv(ps, i, k, sgn, ex) ==
    TinyNumOut(ps, i, k, sgn, ex, MAX(ex.numWidth, ps.prec))

tiny_do_conv_numeric(pspec, as, i, code, k, base) ==
    TinyNumConv(TinyNumSpec(pspec), i, k, TinySign(pspec, va_arg(as, i).v),
                ExpandDigits(TinyMagnitude(pspec, va_arg(as, i).v), base,
                             code = "x", NewBuffer(TINY_BUFLEN), 0))

TinyBase(code) ==
    IF code = "d" \/ code = "u" THEN 10
    ELSE IF code = "x" \/ code = "X" THEN 16
    ELSE IF code = "b" THEN 2
    ELSE 0

\* %p is %4.4X; %d sets F_IS_SIGNED
TinyConvSpec(pspec, code) ==
    IF code = "p" THEN [pspec EXCEPT !.width = 4, !.prec = 4]
    ELSE IF code = "d"
    THEN [pspec EXCEPT !.flags = pspec.flags \cup {F_IS_SIGNED}]
    ELSE pspec

tiny_do_conv(pspec, as, i, code, k) ==
    IF code = "%"
    THEN [k |-> TinyRet(tiny_pad([k EXCEPT !.rc = 0], code, 1), 1),
          ap |-> i, pspec |-> pspec,
          sec |-> [NoSec EXCEPT !.body = <<code>>, !.length = 1],
          oob |-> FALSE]
    ELSE IF code = "c" THEN tiny_do_conv_c(pspec, as, i, k)
    ELSE IF code = "s" THEN tiny_do_conv_s(pspec, as, i, k)
    ELSE IF TinyBase(IF code = "p" THEN "X" ELSE code) > 1
    THEN tiny_do_conv_numeric(TinyConvSpec(pspec, code), as, i,
                              IF code = "p" THEN "X" ELSE code, k,
                              TinyBase(IF code = "p" THEN "X" ELSE code))
    ELSE [k |-> [k EXCEPT !.rc = EXBADFORMAT], ap |-> i,
          pspec |-> TinyConvSpec(pspec, code), sec |-> NoSec, oob |-> FALSE]

\* for ( fspec.flags = 0; ( c = *fmt ) && (t = STRCHR(fchar, c)) != NULL; )
RECURSIVE TinyParseFlags(_, _, _)
TinyParseFlags(s, p, flags) ==
    IF READ_CHAR(s, p) # NUL /\ STRCHR(tiny_fchar, READ_CHAR(s, p)) # 0
    THEN TinyParseFlags(s, p + 1, flags \cup
                          {tiny_fbit[STRCHR(tiny_fchar, READ_CHAR(s, p))]})
    ELSE [flags |-> flags, p |-> p]

\* for ( fspec.width = 0; ( c = *fmt ) && ISDIGIT( c )
\*       && fspec.width < MAXWIDTH; fmt++ )
\*     fspec.width = fspec.width * 10 + c - '0';      with a uint8_t width
RECURSIVE TinyWidthLoop(_, _, _)
TinyWidthLoop(s, p, v) ==
    IF READ_CHAR(s, p) # NUL /\ ISDIGIT(READ_CHAR(s, p)) /\ v < TINY_MAXWIDTH
    THEN TinyWidthLoop(s, p + 1, ToUint8(v * 10 + DigitVal(READ_CHAR(s, p))))
    ELSE [v |-> v, p |-> p]

\* the same loop for the precision, an int8_t
RECURSIVE TinyPrecLoop(_, _, _)
TinyPrecLoop(s, p, v) ==
    IF READ_CHAR(s, p) # NUL /\ ISDIGIT(READ_CHAR(s, p)) /\ v < TINY_MAXPREC
    THEN TinyPrecLoop(s, p + 1, ToInt8(v * 10 + DigitVal(READ_CHAR(s, p))))
    ELSE [v |-> v, p |-> p]

TinyEmptySpec == [nChars |-> 0, flags |-> {}, width |-> 0, prec |-> -1]

TinyParseErr(p, i) == [err |-> TRUE, cont |-> FALSE, spec |-> TinyEmptySpec,
                       code |-> NUL, p |-> p, ap |-> i]

\* the end of the template (a continuation) or the conversion letter
TinyParseConv(s, sp, p, i) ==
    [err |-> FALSE, cont |-> READ_CHAR(s, p) = NUL, spec |-> sp,
     code |-> READ_CHAR(s, p), p |-> p, ap |-> i]

TinyPrecCheck(s, sp, p, i) ==
    IF sp.prec > TINY_MAXPREC THEN TinyParseErr(p, i)
    ELSE TinyParseConv(s, sp, p, i)

TinyParsePrec(s, sp, p, i) ==
    IF READ_CHAR(s, p) # "."
    THEN TinyParseConv(s, [sp EXCEPT !.prec = -1], p, i)
    ELSE TinyPrecCheck(s, [sp EXCEPT !.prec = TinyPrecLoop(s, p + 1, 0).v],
                       TinyPrecLoop(s, p + 1, 0).p, i)

TinyWidthCheck(s, sp, p, i) ==
    IF sp.width > TINY_MAXWIDTH THEN TinyParseErr(p, i)
    ELSE TinyParsePrec(s, sp, p, i)

TinyParseWidth(s, sp, p, i) ==
    TinyWidthCheck(s, [sp EXCEPT !.width = TinyWidthLoop(s, p, 0).v],
                   TinyWidthLoop(s, p, 0).p, i)

\* s[p0] is the '%'
TinyParseSpec(s, p0, i0, nChars) ==
    TinyParseWidth(s, [TinyEmptySpec EXCEPT
                         !.nChars = nChars,
                         !.flags = TinyParseFlags(s, p0 + 1, {}).flags],
                   TinyParseFlags(s, p0 + 1, {}).p, i0)

(***************************************************************************)
(* The calls of the tiny and the micro tier that are explored              *)
(***************************************************************************)
SmallFlagStrs == { <<>>, <<"-">>, <<"0">>, <<"+">>, <<" ">>, <<"-", "0">> }

SmallWidthStrs == { <<>>, <<"5">>, <<"7", "9">>, <<"8", "0">>, <<"8", "1">>,
                   <<"9", "9">>, <<"1", "0", "0">>, <<"2", "5", "5">>,
                   <<"2", "5", "6">>, <<"3", "0", "0">>, <<"3", "3", "6">>,
                   <<"3", "3", "7">>, <<"8", "0", "0">>, <<"2", "5", "6", "1">>,
                   <<"1", "0", "0", "0">> }

SmallPrecStrs == { <<>>, <<".", "0">>, <<".", "3">>, <<".", "8", "0">>,
                  <<".", "8", "1">>, <<".", "1", "0", "0">>, <<".", "1", "2", "8">>,
                  <<".", "2", "0", "0">>, <<".", "2", "5", "6">>,
                  <<".", "1", "0", "0", "0">> }

SmallIntCases ==
    { [fmt |-> Tmpl(f, w, p, c), args |-> <<IntArg(v)>>] :
        f \in SmallFlagStrs, w \in SmallWidthStrs, p \in SmallPrecStrs,
        c \in {"d", "x"}, v \in {0, -42} }

SmallStrCases ==
    { [fmt |-> <<"[">> \o Tmpl(f, w, p, "s") \o <<"]">>,
       args |-> <<StrArg(<<"a", "b", "c">>)>>] :
        f \in {<<>>, <<"-">>}, w \in SmallWidthStrs, p \in SmallPrecStrs }

SmallMiscCases ==
    { [fmt |-> NULLP, args |-> <<IntArg(1)>>],
      [fmt |-> <<"p", "l", "a", "i", "n">>, args |-> <<>>],
      [fmt |-> <<"1", "0", "0", "%", "%">>, args |-> <<>>],
      [fmt |-> <<"%", "c", "%", ".", "3", "c">>,
       args |-> <<CharArg("a"), CharArg("b")>>],
      [fmt |-> <<"%", "s", "|", "%", "6", "s">>,
       args |-> <<NullArg, StrArg(<<"x", "y">>)>>],
      [fmt |-> <<"%", "p">>, args |-> <<IntArg(4660)>>],
      [fmt |-> <<"%", "u", " ", "%", "X", " ", "%", "b">>,
       args |-> <<IntArg(65535), IntArg(48879), IntArg(5)>>],
      [fmt |-> <<"%", "d", ",", "%", "d">>,
       args |-> <<IntArg(32767), IntArg(-32768)>>],
      [fmt |-> <<"%", "y">>, args |-> <<IntArg(1)>>],
      [fmt |-> <<"%", "#", "x">>, args |-> <<IntArg(1)>>],
      [fmt |-> <<"%", "*", "d">>, args |-> <<IntArg(3), IntArg(1)>>],
      [fmt |-> <<"a", "%", "3", "d", "%">>,
       args |-> <<IntArg(7), StrArg(<<"b", "%", "-", "4", "s", "|">>),
                  StrArg(<<"x", "y">>)>>],
      [fmt |-> <<"%", "0", "8", "0", "d">>, args |-> <<IntArg(7)>>],
      [fmt |-> <<"%", "8", "0", ".", "8", "0", "d">>, args |-> <<IntArg(7)>>],
      [fmt |-> <<"%", "-", "8", "0", "s", "|">>,
       args |-> <<StrArg(<<"x", "y">>)>>],
      [fmt |-> <<"[", "%", "8", ".", "2", "s", "]">>, args |-> <<NullArg>>],
      [fmt |-> <<"[", "%", "-", "8", "s", "]">>, args |-> <<NullArg>>],
      [fmt |-> <<"%", "0", "3", "s", "%", "d">>,
       args |-> <<NullArg, IntArg(7)>>],
      [fmt |-> <<"%", "b", "|", "%", "b", "|", "%", "2", "0", "b">>,
       args |-> <<IntArg(65535), IntArg(32768), IntArg(-1)>>] }

SmallCases == SmallIntCases \cup SmallStrCases \cup SmallMiscCases

(***************************************************************************)
(* The call format( cons, arg, fmt, ap ) of the tiny tier                  *)
(***************************************************************************)
TinyNoLast == [code |-> NUL, spec |-> TinyEmptySpec, sec |-> NoSec, rc |-> 0,
               from |-> 0, ap0 |-> 1, oob |-> FALSE]

InitTiny ==
    /\ other = NoOther
    /\ frame = NoFrame
    /\ \E c \in SmallCases : fmt = c.fmt /\ args = c.args
    /\ ptr = 1
    /\ ap = 1
    /\ fspec = TinyEmptySpec
    /\ conv = NUL
    /\ pc = "start"
    /\ out = <<>>
    /\ ret = NoRet
    /\ text = <<>>
    /\ last = TinyNoLast
    /\ nfail = 0

\* if ( fmt == NULL ) goto exit_badformat;
TinyNull ==
    /\ pc = "start"
    /\ fmt = NULLP
    /\ pc' = "done"
    /\ ret' = EXBADFORMAT
    /\ UNCHANGED <<fmt, ptr, args, ap, fspec, conv, out, text, last, nfail>>
    /\ UNCHANGED <<other, frame>>

\* fspec.nChars = 0;
TinyBegin ==
    /\ pc = "start"
    /\ fmt # NULLP
    /\ pc' = "loop"
    /\ fspec' = [fspec EXCEPT !.nChars = 0]
    /\ UNCHANGED <<fmt, ptr, args, ap, conv, out, ret, text, last, nfail>>
    /\ UNCHANGED <<other, frame>>

\* the scan for % or the terminator, and the emit of the run before it
TinyLiteral ==
    /\ pc = "loop"
    /\ READ_CHAR(fmt, ptr) # NUL
    /\ READ_CHAR(fmt, ptr) # "%"
    /\ \E failAt \in 0..1 :
         LiteralRun(ScanRun(fmt, ptr),
                    tiny_emit(Sink(failAt),
                              SubSeq(fmt, ptr, ScanRun(fmt, ptr) - 1),
                              ScanRun(fmt, ptr) - ptr))
    /\ UNCHANGED <<fmt, args, ap, conv, last>>
    /\ UNCHANGED <<other, frame>>

\* a width or a precision above the maximum: goto exit_badformat
TinyParseError ==
    /\ pc = "loop"
    /\ READ_CHAR(fmt, ptr) = "%"
    /\ ParseErrorOf(TinyParseSpec(fmt, ptr, ap, fspec.nChars))
    /\ ret' = EXBADFORMAT
    /\ pc' = "done"
    /\ UNCHANGED <<fmt, args, fspec, conv, out, text, last, nfail>>
    /\ UNCHANGED <<other, frame>>

\* fmt = va_arg( ap, const char * ); continue;
TinyContinuation ==
    /\ pc = "loop"
    /\ READ_CHAR(fmt, ptr) = "%"
    /\ ContinuationOf(TinyParseSpec(fmt, ptr, ap, fspec.nChars))
    /\ ptr' = 1
    /\ UNCHANGED <<args, conv, pc, out, ret, text, last, nfail>>
    /\ UNCHANGED <<other, frame>>

\* the flags, the width and the precision up to the conversion letter
TinyParseOk ==
    /\ pc = "loop"
    /\ READ_CHAR(fmt, ptr) = "%"
    /\ ParseOkOf(TinyParseSpec(fmt, ptr, ap, fspec.nChars))
    /\ pc' = "conv"
    /\ UNCHANGED <<fmt, args, out, ret, text, last, nfail>>
    /\ UNCHANGED <<other, frame>>

\* nn = do_conv( &fspec, &ap, c, cons, &arg );
TinyConvert ==
    /\ pc = "conv"
    /\ \E failAt \in 0..MaxFailAt :
         ConvertOf(tiny_do_conv(fspec, args, ap, conv, Sink(failAt)), failAt)
    /\ UNCHANGED <<fmt, args, conv>>
    /\ UNCHANGED <<other, frame>>

\* return (int)fspec.nChars;
TinyReturn ==
    /\ pc = "loop"
    /\ READ_CHAR(fmt, ptr) = NUL
    /\ ret' = fspec.nChars
    /\ pc' = "done"
    /\ UNCHANGED <<fmt, ptr, args, ap, fspec, conv, out, text, last, nfail>>
    /\ UNCHANGED <<other, frame>>

NextTiny == TinyNull \/ TinyBegin \/ TinyLiteral \/ TinyParseError
            \/ TinyContinuation \/ TinyParseOk \/ TinyConvert \/ TinyReturn

SpecTiny == InitTiny /\ [][NextTiny]_vars

(***************************************************************************)
(* The micro tier (microformat.c): the output goes character by character  *)
(* to format_putchar; a call of it that returns -1 ends the call.  The     *)
(* local nChars of microformat() is kept in fspec.nChars.                  *)
(***************************************************************************)
MICRO_MAXWIDTH == 80

MICRO_MAXPREC == 80

MICRO_BUFLEN == 16

\* while ( n-- ) { if ( s ) c = *s++; if ( format_putchar( c ) == -1 ) ...
RECURSIVE micro_emit(_, _, _, _)
micro_emit(k, s, c, n) ==
    IF k.rc < 0 \/ n = 0 THEN k
    ELSE micro_emit(
             [k EXCEPT !.calls = Append(k.calls,
                                        <<IF s # NULLP THEN Head(s) ELSE c>>),
                       !.rc = IF Len(k.calls) + 1 = k.failAt
                              THEN EXBADFORMAT ELSE 0],
             IF s # NULLP THEN Tail(s) ELSE s, c, n - 1)

MicroRet(k, n) == [k EXCEPT !.rc = IF k.rc < 0 THEN EXBADFORMAT ELSE n]

micro_gen_out(k, ps1, pfx_c, pfx_n, pz, e_s, e_n, ps2) ==
    MicroRet(micro_emit(micro_emit(micro_emit(micro_emit(micro_emit(
        [k EXCEPT !.rc = 0], NULLP, " ", ps1),
        NULLP, pfx_c, pfx_n),
        NULLP, "0", pz),
        e_s, NUL, e_n),
        NULLP, " ", ps2),
        ps1 + pfx_n + pz + e_n + ps2)

micro_calc_space_padding(pspec, length) ==
    [ps1 |-> IF FMINUS \in pspec.flags THEN 0
             ELSE MAX(0, pspec.width - length),
     ps2 |-> IF FMINUS \in pspec.flags THEN MAX(0, pspec.width - length)
             ELSE 0]

\* one character: the % conversion, the c conversion, and '?' for a null
\* string; emit returns 1
MicroOneChar(pspec, i, k, c) ==
    [k |-> MicroRet(micro_emit([k EXCEPT !.rc = 0], NULLP, c, 1), 1),
     ap |-> i, pspec |-> pspec,
     sec |-> [NoSec EXCEPT !.body = <<c>>, !.length = 1],
     oob |-> FALSE]

MicroStrOut(pspec, i, k, s, length, sp) ==
    [k |-> MicroRet(micro_emit(micro_emit(micro_emit(
               [k EXCEPT !.rc = 0], NULLP, " ", sp.ps1),
               s, NUL, length),
               NULLP, " ", sp.ps2),
               length + sp.ps1 + sp.ps2),
     ap |-> i + 1,
     pspec |-> pspec,
     sec |-> [ps1 |-> sp.ps1, pfx |-> <<>>, pz |-> 0,
              body |-> SubSeq(s, 1, length), ps2 |-> sp.ps2,
              length |-> length],
     oob |-> FALSE]

MicroStrLen(pspec, s) ==
    IF pspec.prec >= 0 THEN MIN(pspec.prec, STRLEN(s)) ELSE STRLEN(s)

micro_do_conv_s(pspec, as, i, k) ==
    IF va_arg(as, i).t = "null"
    THEN [MicroOneChar(pspec, i, k, "?") EXCEPT !.ap = i + 1]
    ELSE MicroStrOut(pspec, i, k, va_arg(as, i).v,
                     MicroStrLen(pspec, va_arg(as, i).v),
                     micro_calc_space_padding(
                         pspec, MicroStrLen(pspec, va_arg(as, i).v)))

MicroNumPad(ps, i, k, sgn, ex, numWidth, sp) ==
    [k |-> micro_gen_out(k, IF FZERO \in ps.flags THEN 0 ELSE sp.ps1,
                         sgn, IF sgn # NUL THEN 1 ELSE 0,
                         numWidth - ex.numWidth
                           + (IF FZERO \in ps.flags THEN sp.ps1 ELSE 0),
                         BufSlice(ex.buf, MICRO_BUFLEN - ex.numWidth,
                                  ex.numWidth),
                         ex.numWidth, sp.ps2),
     ap |-> i + 1,
     pspec |-> ps,
     sec |-> [ps1 |-> IF FZERO \in ps.flags THEN 0 ELSE sp.ps1,
              pfx |-> IF sgn # NUL THEN <<sgn>> ELSE <<>>,
              pz |-> numWidth - ex.numWidth
                     + (IF FZERO \in ps.flags THEN sp.ps1 ELSE 0),
              body |-> BufSlice(ex.buf, MICRO_BUFLEN - ex.numWidth,
                                ex.numWidth),
              ps2 |-> sp.ps2,
              length |-> (IF sgn # NUL THEN 1 ELSE 0) + numWidth],
     oob |-> ex.buf.oob]

MicroNumOut(ps, i, k, sgn, ex, numWidth) ==
    MicroNumPad(ps, i, k, sgn, ex, numWidth,
                micro_calc_space_padding(
                    ps, (IF sgn # NUL THEN 1 ELSE 0) + numWidth))

MicroNumConv(ps, i, k, sgn, ex) ==
    MicroNumOut(ps, i, k, sgn, ex, MAX(ex.numWidth, ps.prec))

\* the value, the sign and the default precision are those of the tiny tier
micro_do_conv_numeric(pspec, as, i, code, k, base) ==
    MicroNumConv(TinyNumSpec(pspec), i, k, TinySign(pspec, va_arg(as, i).v),
                 ExpandDigits(TinyMagnitude(pspec, va_arg(as, i).v), base,
                              code = "x", NewBuffer(MICRO_BUFLEN), 0))

micro_do_conv(pspec, as, i, code, k) ==
    IF code = "%" THEN MicroOneChar(pspec, i, k, code)
    ELSE IF code = "c"
    THEN [MicroOneChar(pspec, i, k, va_arg(as, i).v) EXCEPT !.ap = i + 1]
    ELSE IF code = "s" THEN micro_do_conv_s(pspec, as, i, k)
    ELSE IF TinyBase(IF code = "p" THEN "X" ELSE code) > 1
    THEN micro_do_conv_numeric(TinyConvSpec(pspec, code), as, i,
                               IF code = "p" THEN "X" ELSE code, k,
                               TinyBase(IF code = "p" THEN "X" ELSE code))
    ELSE [k |-> [k EXCEPT !.rc = EXBADFORMAT], ap |-> i,
          pspec |-> TinyConvSpec(pspec, code), sec |-> NoSec, oob |-> FALSE]

\* for ( v = 0; ( c = *fmt ) && ISDIGIT( c ) && v <= (MAX / 10); fmt++ )
\*     v = v * 10 + c - '0';
RECURSIVE MicroNumLoop(_, _, _, _)
MicroNumLoop(s, p, v, max) ==
    IF READ_CHAR(s, p) # NUL /\ ISDIGIT(READ_CHAR(s, p)) /\ v <= max \div 10
    THEN MicroNumLoop(s, p + 1, v * 10 + DigitVal(READ_CHAR(s, p)), max)
    ELSE [v |-> v, p |-> p]

\* the conversion letter is whatever character comes next
MicroParseConv(s, sp, p, i) ==
    [err |-> FALSE, cont |-> FALSE, spec |-> sp, code |-> READ_CHAR(s, p),
     p |-> p, ap |-> i]

MicroPrecCheck(s, sp, p, i) ==
    IF sp.prec > MICRO_MAXPREC THEN TinyParseErr(p, i)
    ELSE MicroParseConv(s, sp, p, i)

MicroParsePrec(s, sp, p, i) ==
    IF READ_CHAR(s, p) # "."
    THEN MicroParseConv(s, [sp EXCEPT !.prec = -1], p, i)
    ELSE MicroPrecCheck(s,
             [sp EXCEPT !.prec = MicroNumLoop(s, p + 1, 0, MICRO_MAXPREC).v],
             MicroNumLoop(s, p + 1, 0, MICRO_MAXPREC).p, i)

MicroWidthCheck(s, sp, p, i) ==
    IF sp.width > MICRO_MAXWIDTH THEN TinyParseErr(p, i)
    ELSE MicroParsePrec(s, sp, p, i)

\* the flags are the four of the tiny tier
MicroParseSpec(s, p0, i0, nChars) ==
    MicroWidthCheck(s,
        [TinyEmptySpec EXCEPT
           !.nChars = nChars,
           !.flags = TinyParseFlags(s, p0 + 1, {}).flags,
           !.width = MicroNumLoop(s, TinyParseFlags(s, p0 + 1, {}).p, 0,
                                  MICRO_MAXWIDTH).v],
        MicroNumLoop(s, TinyParseFlags(s, p0 + 1, {}).p, 0,
                     MICRO_MAXWIDTH).p, i0)

(***************************************************************************)
(* The call microformat( fmt, ap )                                         *)
(***************************************************************************)
InitMicro == InitTiny

\* if ( fmt == NULL ) return EXBADFORMAT;
MicroNull ==
    /\ pc = "start"
    /\ fmt = NULLP
    /\ pc' = "done"
    /\ ret' = EXBADFORMAT
    /\ UNCHANGED <<fmt, ptr, args, ap, fspec, conv, out, text, last, nfail>>
    /\ UNCHANGED <<other, frame>>

\* nChars = 0 and the loop is entered
MicroBegin ==
    /\ pc = "start"
    /\ fmt # NULLP
    /\ pc' = "loop"
    /\ fspec' = [fspec EXCEPT !.nChars = 0]
    /\ UNCHANGED <<fmt, ptr, args, ap, conv, out, ret, text, last, nfail>>
    /\ UNCHANGED <<other, frame>>

\* if ( format_putchar( *fmt++ ) == -1 ) goto exit_badformat; nChars++;
MicroLiteral ==
    /\ pc = "loop"
    /\ READ_CHAR(fmt, ptr) # NUL
    /\ READ_CHAR(fmt, ptr) # "%"
    /\ \E failAt \in 0..1 :
         LiteralRun(ptr + 1,
                    micro_emit(Sink(failAt), NULLP, READ_CHAR(fmt, ptr), 1))
    /\ UNCHANGED <<fmt, args, ap, conv, last>>
    /\ UNCHANGED <<other, frame>>

\* a width or a precision above the maximum: goto exit_badformat
MicroParseError ==
    /\ pc = "loop"
    /\ READ_CHAR(fmt, ptr) = "%"
    /\ ParseErrorOf(MicroParseSpec(fmt, ptr, ap, fspec.nChars))
    /\ ret' = EXBADFORMAT
    /\ pc' = "done"
    /\ UNCHANGED <<fmt, args, fspec, conv, out, text, last, nfail>>
    /\ UNCHANGED <<other, frame>>

\* the flags, the width and the precision up to the conversion letter
MicroParseOk ==
    /\ pc = "loop"
    /\ READ_CHAR(fmt, ptr) = "%"
    /\ ParseOkOf(MicroParseSpec(fmt, ptr, ap, fspec.nChars))
    /\ pc' = "conv"
    /\ UNCHANGED <<fmt, args, out, ret, text, last, nfail>>
    /\ UNCHANGED <<other, frame>>

\* int nn = do_conv( &fspec, &ap, *fmt++ );
MicroConvert ==
    /\ pc = "conv"
    /\ \E failAt \in 0..MaxFailAt :
         ConvertOf(micro_do_conv(fspec, args, ap, conv, Sink(failAt)), failAt)
    /\ UNCHANGED <<fmt, args, conv>>
    /\ UNCHANGED <<other, frame>>

\* return (int)nChars;
MicroReturn ==
    /\ pc = "loop"
    /\ READ_CHAR(fmt, ptr) = NUL
    /\ ret' = fspec.nChars
    /\ pc' = "done"
    /\ UNCHANGED <<fmt, ptr, args, ap, fspec, conv, out, text, last, nfail>>
    /\ UNCHANGED <<other, frame>>

NextMicro == MicroNull \/ MicroBegin \/ MicroLiteral \/ MicroParseError
             \/ MicroParseOk \/ MicroConvert \/ MicroReturn

SpecMicro == InitMicro /\ [][NextMicro]_vars

(***************************************************************************)
(* Two calls of format() on different sinks.  Every object a call writes   *)
(* is an automatic variable of format() or of a function it calls, or      *)
(* belongs to its own sink; the static arrays spaces, zeroes and sitab are *)
(* only read.  A call therefore is its locals, and the platform may stop   *)
(* the running call between two of its steps and let the other one run.    *)
(***************************************************************************)
\* the automatic variables of the running call, with its sink and what the
\* sink has received
Locals == [fmt |-> fmt, ptr |-> ptr, args |-> args, ap |-> ap,
           fspec |-> fspec, conv |-> conv, pc |-> pc, out |-> out,
           ret |-> ret, text |-> text, last |-> last, nfail |-> nfail]

\* a call that has not begun
StartOf(c) == [fmt |-> c.fmt, ptr |-> 1, args |-> c.args, ap |-> 1,
               fspec |-> EmptySpec, conv |-> NUL, pc |-> "start",
               out |-> <<>>, ret |-> NoRet, text |-> <<>>, last |-> NoLast,
               nfail |-> 0]

\* the calls that are run side by side: the null template, a centred
\* string, a continuation, groupings, an unknown conversion, a grouping
\* without its end, an SI prefix taken from sitab, paddings longer than
\* spaces and zeroes, and LONG_MIN
PairCases ==
    { [fmt |-> NULLP, args |-> <<>>],
      [fmt |-> <<"[", "%", "^", "8", "s", "]">>,
       args |-> <<StrArg(<<"h", "e", "l", "l", "o">>)>>],
      [fmt |-> HelloPct, args |-> <<StrArg(World)>>],
      [fmt |-> <<"%", "[", ",", "3", "]", "d", "|", "%", "[", ",", "3", ".", "2", "]", "d">>,
       args |-> <<IntArg(1234567), IntArg(1234567)>>],
      [fmt |-> <<"%", "y">>, args |-> <<IntArg(1)>>],
      [fmt |-> <<"%", "[", ",", "3", "d">>, args |-> <<IntArg(5)>>],
      [fmt |-> <<"%", "!", ".", "2", "f">>, args |-> <<FpArg(0, 140, 4252672)>>],
      [fmt |-> <<"a", "%", "3", "d", "%">>,
       args |-> <<IntArg(7),
                  StrArg(<<"b", "%", "-", "2", "0", "s", "|", "%", "0", "4", "0", "d">>),
                  StrArg(<<"x", "y">>), IntArg(-9)>>],
      [fmt |-> <<"%", "d">>, args |-> <<IntArg(LONG_MIN)>>] }

InitPair ==
    /\ \E c \in PairCases : other \in {NoOther, StartOf(c)}
    /\ frame = NoFrame
    /\ \E c \in PairCases : fmt = c.fmt /\ args = c.args
    /\ ptr = 1
    /\ ap = 1
    /\ fspec = EmptySpec
    /\ conv = NUL
    /\ pc = "start"
    /\ out = <<>>
    /\ ret = NoRet
    /\ text = <<>>
    /\ last = NoLast
    /\ nfail = 0

\* as if fspec were a static object: the call that runs on finds the
\* specification and the count the other call left
Resume_SharedSpec(o) ==
    /\ fmt' = o.fmt
    /\ ptr' = o.ptr
    /\ args' = o.args
    /\ ap' = o.ap
    /\ fspec' = fspec
    /\ conv' = o.conv
    /\ pc' = o.pc
    /\ out' = o.out
    /\ ret' = o.ret
    /\ text' = o.text
    /\ last' = o.last
    /\ nfail' = o.nfail

\* the call o runs on: each of its variables is as it left it
Resume(o) ==
    /\ fmt' = o.fmt
    /\ ptr' = o.ptr
    /\ args' = o.args
    /\ ap' = o.ap
    /\ fspec' = o.fspec
    /\ conv' = o.conv
    /\ pc' = o.pc
    /\ out' = o.out
    /\ ret' = o.ret
    /\ text' = o.text
    /\ last' = o.last
    /\ nfail' = o.nfail

\* the running call is stopped between two steps and the other one runs on;
\* a call that has trapped has ended the program
Switch ==
    /\ other # NoOther
    /\ pc # "abort"
    /\ other' = Locals
    /\ Resume(other)
    /\ UNCHANGED frame

NextPair == FormatNull \/ FormatBegin \/ Literal \/ ParseError \/ Continuation
            \/ ParseOk \/ Convert \/ Return \/ Switch

SpecPair == InitPair /\ [][NextPair]_vars

(***************************************************************************)
(* Properties of a call of format()                                        *)
(***************************************************************************)
IsPrefix(a, b) == Len(a) <= Len(b) /\ SubSeq(b, 1, Len(a)) = a

\* the calls of the consumer made by the step just taken
NewCalls == SubSeq(out', Len(out) + 1, Len(out'))

Returned == pc = "done"

\* C1: whenever format returns n >= 0, n is the sum of the byte counts of
\* all the calls of the consumer made during the call (literal runs,
\* padding chunks, prefixes and bodies, continuation templates included).
C1_CountIsSinkBytes == (Returned /\ ret >= 0) => ret = SumLen(out)

\* a call through a continuation template with literal runs, a padded
\* conversion and more than one consumer call has returned its count
C1_Witness == /\ Returned
              /\ ret > PAD_STRING_LEN
              /\ Len(out) >= 5
              /\ \E j \in 1..Len(args) : args[j] = StrArg(fmt)
              /\ \E j \in 1..Len(out) : out[j] = spaces

\* C2: if a call of the consumer fails, format returns EXBADFORMAT, never a
\* count, and calls the consumer no more; what was delivered before the
\* failure stays delivered.
C2_SinkFailureStops ==
    [][ /\ nfail' # 0 => /\ pc' = "done"
                        /\ ret' = EXBADFORMAT
                        /\ Len(out') = nfail'
        /\ IsPrefix(out, out') ]_vars

\* the consumer failed its third or a later call: bytes were delivered before
C2_Witness == /\ Returned
              /\ nfail >= 3
              /\ ret = EXBADFORMAT
              /\ SumLen(SubSeq(out, 1, nfail - 1)) > 0

\* C3: each conversion hands its sections to the consumer in the order left
\* space padding, prefix, zero padding, body, right space padding, and the
\* calls of the consumer, concatenated in call order, are the output text.
C3_SectionsInOrder ==
    [][ /\ IsPrefix(Flatten(out'), text')
        /\ nfail' = 0 => Flatten(out') = text'
        /\ (pc = "conv" /\ last'.rc >= 0)
             => /\ Flatten(NewCalls) = SecText(last'.sec)
                /\ SumLen(NewCalls) = last'.rc ]_vars

\* a conversion has sent all five sections
C3_Witness == /\ last.rc >= 0
              /\ last.sec.ps1 > 0
              /\ last.sec.pfx # <<>>
              /\ last.sec.pz > 0
              /\ last.sec.body # <<>>
              /\ last.sec.ps2 > 0
              /\ Flatten(out) = text

\* The modifiers of a conversion specification as they are written in the
\* template: flags, a width, '.' and a precision, ':' and a base, each number
\* a run of digits or '*'.
RECURSIVE FlagsEnd(_, _)
FlagsEnd(s, p) ==
    IF READ_CHAR(s, p) \in {" ", "+", "-", "#", "0", "!", "^"}
    THEN FlagsEnd(s, p + 1) ELSE p

RECURSIVE DigitsEnd(_, _)
DigitsEnd(s, p) == IF ISDIGIT(READ_CHAR(s, p)) THEN DigitsEnd(s, p + 1) ELSE p

NumEnd(s, p) == IF READ_CHAR(s, p) = "*" THEN p + 1 ELSE DigitsEnd(s, p)

\* the value of the digits s[p .. q - 1], saturated at Big
Big == 100000

RECURSIVE DecValue(_, _, _, _)
DecValue(s, p, q, v) ==
    IF p >= q THEN v
    ELSE DecValue(s, p + 1, q, MIN(v * 10 + DigitVal(s[p]), Big))

WidthPos(s, p) == FlagsEnd(s, p + 1)

PrecPos(s, p) == NumEnd(s, WidthPos(s, p))

HasPrec(s, p) == READ_CHAR(s, PrecPos(s, p)) = "."

BasePos(s, p) ==
    IF HasPrec(s, p) THEN NumEnd(s, PrecPos(s, p) + 1) ELSE PrecPos(s, p)

GroupPos(s, p) ==
    IF READ_CHAR(s, BasePos(s, p)) = ":" THEN NumEnd(s, BasePos(s, p) + 1)
    ELSE BasePos(s, p)

\* the specification at p has a grouping modifier that is never closed
UnclosedGroup(s, p) ==
    /\ READ_CHAR(s, GroupPos(s, p)) = "["
    /\ \A j \in GroupPos(s, p)..Len(s) : s[j] # "]"

\* the position after the grouping modifier, if there is one
RECURSIVE CloseEnd(_, _)
CloseEnd(s, p) ==
    IF p > Len(s) \/ s[p] = "]" THEN p + 1 ELSE CloseEnd(s, p + 1)

QualPos(s, p) ==
    IF READ_CHAR(s, GroupPos(s, p)) = "[" THEN CloseEnd(s, GroupPos(s, p))
    ELSE GroupPos(s, p)

\* the specification at p is %C with nothing after the C
EmptyRepeat(s, p) ==
    /\ ~UnclosedGroup(s, p)
    /\ QualPos(s, p) = Len(s)
    /\ s[Len(s)] = "C"

\* the specification at p is a floating point conversion qualified by one L
LongFp(s, p) ==
    /\ ~UnclosedGroup(s, p)
    /\ READ_CHAR(s, QualPos(s, p)) = "L"
    /\ IsFpCode(READ_CHAR(s, QualPos(s, p) + 1))

AtSpec == pc = "loop" /\ READ_CHAR(fmt, ptr) = "%"

Rejected == pc' = "done" /\ ret' = EXBADFORMAT /\ out' = out

\* C4: format returns EXBADFORMAT for a null template (without a call of
\* the consumer and without taking an argument), for a grouping modifier
\* that has no ']' before the end of the template, for %C followed by the
\* end of the template, and for the L qualifier on e, E, f, F, g and G.
C4_MalformedRejected ==
    [][ /\ (pc = "start" /\ fmt = NULLP)
             => (Rejected /\ out = <<>> /\ ap' = ap)
        /\ (AtSpec /\ UnclosedGroup(fmt, ptr)) => Rejected
        /\ (AtSpec /\ EmptyRepeat(fmt, ptr)) => Rejected
        /\ (AtSpec /\ LongFp(fmt, ptr))
             => \/ Rejected
                \/ pc' = "conv" /\ fspec'.qual = "L" /\ IsFpCode(conv')
        /\ (pc = "conv" /\ fspec.qual = "L" /\ IsFpCode(conv))
             => Rejected ]_vars

\* a template was rejected at a grouping modifier without ']', after the
\* consumer had taken the text before it
C4_Witness ==
    /\ Returned
    /\ ret = EXBADFORMAT
    /\ nfail = 0
    /\ fmt # NULLP
    /\ out # <<>>
    /\ \E p \in 1..Len(fmt) : fmt[p] = "%" /\ UnclosedGroup(fmt, p)

\* The width and the precision as the template and the arguments give them.
WidthIsStar(s, p) == READ_CHAR(s, WidthPos(s, p)) = "*"

PrecIsStar(s, p) == HasPrec(s, p) /\ READ_CHAR(s, PrecPos(s, p) + 1) = "*"

IntOf(a) == IF a.t = "int" THEN a.v ELSE 0

WidthGiven(s, p, as, i) ==
    IF WidthIsStar(s, p) THEN IntOf(va_arg(as, i))
    ELSE DecValue(s, WidthPos(s, p), PrecPos(s, p), 0)

PrecGiven(s, p, as, i) ==
    IF ~HasPrec(s, p) THEN -1
    ELSE IF PrecIsStar(s, p)
    THEN IntOf(va_arg(as, IF WidthIsStar(s, p) THEN i + 1 ELSE i))
    ELSE DecValue(s, PrecPos(s, p) + 1, BasePos(s, p), 0)

\* the specification ends with a conversion letter of an integer or a string
\* conversion right after the precision
PlainEnd(s, p) ==
    READ_CHAR(s, BasePos(s, p)) \in {"d", "i", "u", "x", "X", "o", "b", "s"}

TooBig(s, p, as, i) ==
    WidthGiven(s, p, as, i) > MAXWIDTH \/ PrecGiven(s, p, as, i) > MAXPREC

\* a too long run of digits is left at its first three digits, 500, and the
\* digit after them is taken for the conversion letter
DigitLetter == pc' = "conv" /\ ISDIGIT(conv')

\* C5: a width or a precision of exactly 500, as digits or through '*', is
\* accepted and the conversion is produced with it; a width or a precision
\* above 500, as digits of any length or through '*', makes format return
\* EXBADFORMAT.
C5_LimitIs500 ==
    [][ /\ (AtSpec /\ TooBig(fmt, ptr, args, ap)) => (Rejected \/ DigitLetter)
        /\ (pc = "conv" /\ ISDIGIT(conv)) => Rejected
        /\ ( /\ AtSpec
             /\ PlainEnd(fmt, ptr)
             /\ ~TooBig(fmt, ptr, args, ap)
             /\ \/ ABS(WidthGiven(fmt, ptr, args, ap)) = MAXWIDTH
                \/ PrecGiven(fmt, ptr, args, ap) = MAXPREC )
             => /\ pc' = "conv"
                /\ fspec'.width = ABS(WidthGiven(fmt, ptr, args, ap))
                /\ fspec'.prec = MAX(-1, PrecGiven(fmt, ptr, args, ap))
        /\ ( /\ pc = "conv"
             /\ conv \in {"d", "i", "u", "x", "X", "o", "b"}
             /\ nfail' = 0
             /\ fspec.width = MAXWIDTH \/ fspec.prec = MAXPREC )
             => /\ pc' = "loop"
                /\ last'.rc >= MAXWIDTH
                /\ SumLen(NewCalls) = last'.rc
        /\ (pc = "conv" /\ conv = "s" /\ nfail' = 0 /\ fspec.width = MAXWIDTH)
             => (pc' = "loop" /\ SumLen(NewCalls) = MAXWIDTH) ]_vars

\* a conversion with both the width and the precision at the limit was made
C5_Witness ==
    /\ Returned
    /\ ret >= MAXWIDTH
    /\ last.spec.width = MAXWIDTH
    /\ last.spec.prec = MAXPREC
    /\ last.rc = MAXWIDTH
    /\ Len(last.sec.body) > 0

\* The width and the precision of a specification of the tiny and the micro
\* tier as the template writes them: flags, digits, '.' and digits.
RECURSIVE SmallFlagsEnd(_, _)
SmallFlagsEnd(s, p) ==
    IF READ_CHAR(s, p) \in {" ", "+", "-", "0"}
    THEN SmallFlagsEnd(s, p + 1) ELSE p

SmallWidthPos(s, p) == SmallFlagsEnd(s, p + 1)

SmallPrecPos(s, p) == DigitsEnd(s, SmallWidthPos(s, p))

SmallHasPrec(s, p) == READ_CHAR(s, SmallPrecPos(s, p)) = "."

SmallConvPos(s, p) ==
    IF SmallHasPrec(s, p) THEN DigitsEnd(s, SmallPrecPos(s, p) + 1)
    ELSE SmallPrecPos(s, p)

SmallWidth(s, p) == DecValue(s, SmallWidthPos(s, p), SmallPrecPos(s, p), 0)

SmallPrec(s, p) ==
    IF SmallHasPrec(s, p)
    THEN DecValue(s, SmallPrecPos(s, p) + 1, SmallConvPos(s, p), 0)
    ELSE -1

SmallTooBig(s, p) == SmallWidth(s, p) > 80 \/ SmallPrec(s, p) > 80

SmallAtLimit(s, p) ==
    /\ ~SmallTooBig(s, p)
    /\ SmallWidth(s, p) = 80 \/ SmallPrec(s, p) = 80
    /\ READ_CHAR(s, SmallConvPos(s, p)) \in {"d", "u", "x", "X", "b", "s"}

\* C6 (as stated): in the tiny and the micro tier a specification whose
\* width or precision is a decimal number above 80, of any number of
\* digits, makes the call return EXBADFORMAT; a width or a precision of
\* exactly 80 is accepted.
C6_AsStated ==
    [][ /\ (AtSpec /\ SmallTooBig(fmt, ptr)) => (Rejected \/ DigitLetter)
        /\ (pc = "conv" /\ ISDIGIT(conv)) => Rejected
        /\ (AtSpec /\ SmallAtLimit(fmt, ptr))
             => /\ pc' = "conv"
                /\ fspec'.width = SmallWidth(fmt, ptr)
                /\ fspec'.prec = SmallPrec(fmt, ptr) ]_vars

\* The conversions that are padded to the field width.
IntCodes == {"d", "i", "I", "u", "U", "x", "X", "o", "b"}

FpCodes == {"e", "E", "f", "F", "g", "G"}

PaddedCodes == IntCodes \cup {"s"} \cup FpCodes

MaxWiden == 3

\* the conversion at hand, made with the width w
Widened(w) == do_conv([fspec EXCEPT !.width = w], args, ap, conv, Sink(0))

WidenedBy(nat, r, w) ==
    /\ r.k.rc = MAX(w, nat.k.rc)
    /\ Flatten(r.k.calls) = SecText(r.sec)
    /\ r.sec.pfx = nat.sec.pfx
    /\ r.sec.body = nat.sec.body
    /\ r.sec.pz >= nat.sec.pz
    /\ r.sec.ps1 + r.sec.pz + r.sec.ps2 = nat.sec.pz + MAX(0, w - nat.k.rc)
    /\ (FCARET \notin r.pspec.flags /\ FMINUS \in r.pspec.flags)
         => (r.sec.ps1 = 0 /\ r.sec.pz = nat.sec.pz)
    /\ (FCARET \notin r.pspec.flags /\ FMINUS \notin r.pspec.flags)
         => r.sec.ps2 = 0

WidenedAll(nat) ==
    \A w \in {fspec.width} \cup {nat.k.rc + k : k \in 0..MaxWiden} :
        w <= MAXWIDTH => WidenedBy(nat, Widened(w), w)

\* C7: the field of an integer, %s or floating point conversion is as long
\* as the larger of the width and the natural length of the result; a width
\* that is k more than the natural length adds exactly k padding characters
\* (before, after, or on both sides, as the flags say) and changes no other
\* character.
C7_WidthOnlyPads ==
    /\ (pc = "conv" /\ conv \in PaddedCodes /\ Widened(0).k.rc >= 0)
         => WidenedAll(Widened(0))
    /\ (last.code \in PaddedCodes /\ last.rc >= 0)
         => /\ last.rc = MAX(last.spec.width, last.sec.length)
            /\ Len(SecText(last.sec)) = last.rc

\* a floating point conversion was padded on both sides
C7_Witness ==
    /\ last.code \in FpCodes
    /\ last.rc = last.spec.width
    /\ last.spec.width > last.sec.length
    /\ last.sec.ps1 > 0
    /\ last.sec.ps2 > 0
    /\ last.sec.body # <<>>

\* The integer converted by the last conversion, and its sections.
LastRaw == IntOf(va_arg(args, last.ap0))

LastValue ==
    IF last.code \in {"d", "i", "I"} THEN SignedVal(last.spec.qual, LastRaw)
    ELSE UnsignedVal(last.spec.qual, LastRaw)

LastIsInt == last.code \in IntCodes /\ last.rc >= 0

ZeroAtPrecZero == LastIsInt /\ last.spec.prec = 0 /\ LastValue = 0

SignOnly == last.sec.pfx \in {<<>>, <<"+">>, <<" ">>}

\* the prefix that # and ! together ask for, whatever the value
ForcedPrefix ==
    /\ {FHASH, FBANG} \subseteq last.spec.flags
    /\ last.code \in {"x", "X", "b"}
    /\ last.sec.pfx = <<"0", IF last.code = "b" THEN "b" ELSE "x">>

PaddingOnly ==
    /\ last.sec.body = <<>>
    /\ last.sec.pz = 0
    /\ last.sec.ps1 + last.sec.ps2
         = MAX(0, last.spec.width - Len(last.sec.pfx))
    /\ last.rc = MAX(last.spec.width, Len(last.sec.pfx))

PrecZeros == last.sec.length - Len(last.sec.pfx) - Len(last.sec.body)

WidthZeros == last.sec.pz - PrecZeros

Deficit == MAX(0, last.spec.width - last.sec.length)

\* C9 (as stated): with the 0 flag, no - flag, no ^ flag and no precision an
\* integer conversion fills the whole deficit with zeros between the prefix
\* and the digits; with the - flag or a precision the 0 flag has no effect
\* and the field is padded with spaces.
C9_AsStated ==
    (LastIsInt /\ FZERO \in last.spec.flags)
      => /\ ( /\ FMINUS \notin last.spec.flags
              /\ FCARET \notin last.spec.flags
              /\ last.spec.prec < 0 )
              => /\ WidthZeros = Deficit
                 /\ last.sec.ps1 = 0
                 /\ last.sec.ps2 = 0
         /\ (FMINUS \in last.spec.flags \/ last.spec.prec >= 0)
              => /\ WidthZeros = 0
                 /\ last.sec.ps1 + last.sec.ps2 = Deficit

OddCentred ==
    /\ last.code = "s"
    /\ last.rc >= 0
    /\ FCARET \in last.spec.flags
    /\ Deficit % 2 = 1

Hello == <<"h", "e", "l", "l", "o">>

NullText == <<"(", "n", "u", "l", "l", ")">>

NullStr == pc = "conv" /\ conv = "s" /\ va_arg(args, ap).t = "null"

\* the specification at hand is within the limits of the small tiers
InSmallLimits == fspec.width <= TINY_MAXWIDTH /\ fspec.prec <= TINY_MAXPREC

\* the conversion r is the one made of the string "(null)" by conversion
\* function F, whichever call of the consumer fails
SameAsText(F(_, _, _, _), failAt) ==
    LET n == F(fspec, args, ap, Sink(failAt))
        t == F(fspec, <<StrArg(NullText)>>, 1, Sink(failAt))
    IN  n.k = t.k /\ n.sec = t.sec /\ n.ap = ap + 1

FullStr(pspec, as, i, k) == do_conv(pspec, as, i, "s", k)

TinyStrConv(pspec, as, i, k) == tiny_do_conv(pspec, as, i, "s", k)

C13_AsStated ==
    [][ (pc = "conv" /\ conv = "c" /\ last'.rc >= 0)
          => /\ Flatten(NewCalls)
                  = Rep(va_arg(args, ap).v, MAX(1, fspec.prec))
             /\ last'.rc = MAX(1, fspec.prec)
             /\ fspec'.nChars = fspec.nChars + MAX(1, fspec.prec)
             /\ ap' = ap + 1 ]_vars

\* The base modifier of a conversion specification as the template and the
\* arguments give it: 0 when there is none.
HasBase(s, p) == READ_CHAR(s, BasePos(s, p)) = ":"

BaseIsStar(s, p) == HasBase(s, p) /\ READ_CHAR(s, BasePos(s, p) + 1) = "*"

\* the arguments that the width and the precision of the specification take
StarsBefore(s, p) ==
    (IF WidthIsStar(s, p) THEN 1 ELSE 0) + (IF PrecIsStar(s, p) THEN 1 ELSE 0)

BaseGiven(s, p, as, i) ==
    IF ~HasBase(s, p) THEN 0
    ELSE IF BaseIsStar(s, p) THEN IntOf(va_arg(as, i + StarsBefore(s, p)))
    ELSE DecValue(s, BasePos(s, p) + 1, GroupPos(s, p), 0)

BasedCodes == {"i", "I", "u", "U"}

\* the specification ends with i, I, u or U right after the base
BaseEnd(s, p) == READ_CHAR(s, GroupPos(s, p)) \in BasedCodes

\* The value of a character as a digit (36 when it is none) and the number
\* that a numeral denotes in a base.
CharVal(c) ==
    IF \E j \in 1..36 : digits[j] = c
    THEN (CHOOSE j \in 1..36 : digits[j] = c) - 1
    ELSE IF \E j \in 1..36 : lowers[j] = c
    THEN (CHOOSE j \in 1..36 : lowers[j] = c) - 1
    ELSE 36

IsNumeral(s, b) == s # <<>> /\ \A j \in 1..Len(s) : CharVal(s[j]) < b

\* minus the number that the numeral s denotes in base b (the magnitude of
\* LONG_MIN is no long, so numerals are read on the negative side)
RECURSIVE ReadNeg(_, _, _)
ReadNeg(s, b, v) ==
    IF s = <<>> THEN v ELSE ReadNeg(Tail(s), b, v * b - CharVal(Head(s)))

NegAbs(v) == IF v < 0 THEN v ELSE -v

\* the numeral of the last conversion: the zeros of the precision and the
\* converted digits
LastNumeral == Rep("0", last.sec.pz) \o last.sec.body

\* C14: for i, I, u and U no base modifier, a bare ':', the base 0 and a '*'
\* base that is 0 or negative select decimal; a base from 2 to 36 selects
\* that base; a base of 1 or above 36, as digits or through '*', makes
\* format return EXBADFORMAT.
C14_BaseSelection ==
    [][ /\ (AtSpec /\ BaseEnd(fmt, ptr) /\ ~TooBig(fmt, ptr, args, ap))
             => LET b == BaseGiven(fmt, ptr, args, ap)
                IN  /\ b > MAXBASE => (Rejected \/ DigitLetter)
                    /\ b <= MAXBASE
                         => /\ pc' = "conv"
                            /\ conv' = READ_CHAR(fmt, GroupPos(fmt, ptr))
                            /\ fspec'.base = MAX(0, b)
                            /\ ap' = ap + StarsBefore(fmt, ptr)
                                        + (IF BaseIsStar(fmt, ptr)
                                           THEN 1 ELSE 0)
        /\ (pc = "conv" /\ ISDIGIT(conv)) => Rejected
        /\ (pc = "conv" /\ conv \in BasedCodes /\ fspec.base = 1)
             => Rejected
        /\ ( /\ pc = "conv"
             /\ conv \in BasedCodes
             /\ fspec.base # 1
             /\ nfail' = 0
             /\ ~ConvOverflows )
             => (pc' = "loop" /\ last'.rc >= 0)
        /\ ( /\ pc = "conv"
             /\ conv \in BasedCodes
             /\ fspec.grouping = <<>>
             /\ last'.rc >= 0 )
             => LET b == IF fspec.base = 0 THEN 10 ELSE fspec.base
                IN  /\ LastValue' # 0 => IsNumeral(last'.sec.body, b)
                    /\ Head(last'.sec.body \o <<"1">>) # "0"
                    /\ ReadNeg(LastNumeral', b, 0) = NegAbs(LastValue')
                    /\ Flatten(NewCalls) = SecText(last'.sec) ]_vars

\* "%:36I" was converted: 44027 is XYZ in base 36
C14_Witness ==
    /\ last.code = "I"
    /\ last.spec.base = MAXBASE
    /\ last.rc >= 0
    /\ LastValue = 44027
    /\ last.sec.body = <<"X", "Y", "Z">>
    /\ Returned

\* The number that a text denotes as a signed numeral in base b.
SignedRead(t, b) ==
    IF t # <<>> /\ Head(t) = "-" THEN ReadNeg(Tail(t), b, 0)
    ELSE -ReadNeg(t, b, 0)

\* the conversion at hand is "%:bi" with a base b from 2 to 36
PlainBased ==
    /\ pc = "conv"
    /\ conv = "i"
    /\ fspec.base \in 2..MAXBASE
    /\ fspec.flags = {}
    /\ fspec.width = 0
    /\ fspec.prec < 0
    /\ fspec.qual = NUL
    /\ fspec.grouping = <<>>
    /\ va_arg(args, ap).t = "int"

OctalAlt ==
    /\ pc = "conv"
    /\ conv = "o"
    /\ FHASH \in fspec.flags
    /\ fspec.grouping = <<>>

\* C16: with '#' the o conversion adds a leading '0' if and only if the
\* digit string, after zero-extension to the precision, would not otherwise
\* begin with '0'; the value 0 with precision 0 then prints the single
\* character '0'.
C16_AsStated ==
    [][ (OctalAlt /\ nfail' = 0)
          => /\ last'.rc >= 0
             /\ last'.sec.pfx \in {<<>>, <<"0">>}
             /\ (last'.sec.pfx = <<"0">>)
                  <=> (LastNumeral' = <<>> \/ Head(LastNumeral') # "0")
             /\ (LastValue' = 0 /\ fspec.prec = 0)
                  => Flatten(NewCalls) = <<"0">> ]_vars


\* the number of digits a string begins with
RECURSIVE DigitRun(_)
DigitRun(s) ==
    IF s # <<>> /\ ISDIGIT(Head(s)) THEN 1 + DigitRun(Tail(s)) ELSE 0

\* the value of a decimal numeral
RECURSIVE DecOf(_)
DecOf(s) ==
    IF s = <<>> THEN 0
    ELSE 10 * DecOf(SubSeq(s, 1, Len(s) - 1)) + DigitVal(s[Len(s)])

\* the symbol-number groups of a grouping modifier, left to right; len is
\* the number of digits the width is written with
RECURSIVE GroupsOf(_)
GroupsOf(gs) ==
    IF gs = <<>> THEN <<>>
    ELSE LET n == DigitRun(Tail(gs))
         IN  <<[sym |-> Head(gs), wid |-> DecOf(SubSeq(gs, 2, n + 1)),
                len |-> n]>>
             \o GroupsOf(SubSeq(gs, n + 2, Len(gs)))

\* the separators of n digits under the groups gr, group j being applied
\* next with c digits already grouped: each separator stands with pos digits
\* on its right.  A group that begins with '-' ends the grouping, a group
\* of width zero is passed over, the leftmost group repeats.
RECURSIVE CutsOf(_, _, _, _)
CutsOf(gr, j, c, n) ==
    IF j = 0 \/ gr[j].sym = "-" THEN {}
    ELSE IF gr[j].wid = 0 THEN CutsOf(gr, j - 1, c, n)
    ELSE IF c + gr[j].wid >= n THEN {}
    ELSE {[pos |-> c + gr[j].wid, sym |-> gr[j].sym]}
         \cup CutsOf(gr, IF j > 1 THEN j - 1 ELSE 1, c + gr[j].wid, n)

\* the digits ds with the separators put in
RECURSIVE Weave(_, _)
Weave(ds, cuts) ==
    IF ds = <<>> THEN <<>>
    ELSE LET here == {c \in cuts : c.pos = Len(ds) - 1}
         IN  <<Head(ds)>>
             \o (IF here # {} THEN <<(CHOOSE c \in here : TRUE).sym>>
                 ELSE <<>>)
             \o Weave(Tail(ds), cuts)

\* the digits the conversion at hand has without its grouping modifier
Ungrouped ==
    do_conv([fspec EXCEPT !.grouping = <<>>], args, ap, conv, Sink(0)).sec.body

\* an integer conversion with a grouping modifier of constant widths
Grouped ==
    /\ pc = "conv"
    /\ conv \in IntCodes
    /\ fspec.grouping # <<>>
    /\ \A j \in 1..Len(fspec.grouping) : fspec.grouping[j] # "*"
    /\ ~ConvOverflows

\* C17: grouping puts the separators into the converted digits from the
\* right: the rightmost group first, then the groups on its left, the
\* leftmost group again and again, unless a group beginning with '-' ends the
\* grouping; a group of width zero is disabled; a separator is put in only
\* while a digit remains on its left, so the digits never begin with a
\* separator ("%[,3.2]d" of 1234567890 is "12,345,678.90", "%[-,2]d" of
\* 123456 is "1234,56").
C17_AsStated ==
    [][ (Grouped /\ nfail' = 0)
          => /\ last'.rc >= 0
             /\ last'.sec.body
                  = Weave(Ungrouped,
                          CutsOf(GroupsOf(fspec.grouping),
                                 Len(GroupsOf(fspec.grouping)), 0,
                                 Len(Ungrouped)))
             /\ Ungrouped # <<>> => Head(last'.sec.body) = Head(Ungrouped)
             /\ (fmt = <<"%", "[", ",", "3", ".", "2", "]", "d">>
                   /\ IntOf(va_arg(args, ap)) = 1234567890)
                  => Flatten(NewCalls)
                       = <<"1", "2", ",", "3", "4", "5", ",", "6", "7", "8",
                           ".", "9", "0">>
             /\ (fmt = <<"%", "[", "-", ",", "2", "]", "d">>
                   /\ IntOf(va_arg(args, ap)) = 123456)
                  => Flatten(NewCalls) = <<"1", "2", "3", "4", ",", "5", "6">>
      ]_vars


\* the converter's result for the conversion at hand without its precision
NoPrecision == do_conv([fspec EXCEPT !.prec = -1], args, ap, conv, Sink(0))

\* an integer conversion with both a grouping modifier and a precision
GroupedPrec ==
    /\ pc = "conv"
    /\ conv \in IntCodes
    /\ fspec.grouping # <<>>
    /\ fspec.prec >= 0
    /\ ~ConvOverflows

\* C18: with a grouping modifier and a precision, the separators stand
\* among the converted digits as they do without the precision, the zero
\* padding holds no separator, and the digits, separators not counted, are
\* max(precision, converted digits) in number; "%.6[_2]d" of 1234 is
\* "0012_34".
C18_GroupingWithPrecision ==
    [][ (GroupedPrec /\ nfail' = 0)
          => /\ last'.rc >= 0
             /\ last'.sec.body = NoPrecision.sec.body
             /\ Flatten(NewCalls) = SecText(last'.sec)
             /\ last'.sec.pz + Len(Ungrouped) = MAX(fspec.prec, Len(Ungrouped))
             /\ Len(last'.sec.body) >= Len(Ungrouped)
             /\ (fmt = <<"%", ".", "6", "[", "_", "2", "]", "d">>
                   /\ IntOf(va_arg(args, ap)) = 1234)
                  => Flatten(NewCalls) = <<"0", "0", "1", "2", "_", "3", "4">>
      ]_vars

\* "%.6[_2]d" of 1234 has been written: two zeros, then "12_34"
C18_Witness ==
    /\ pc = "done"
    /\ nfail = 0
    /\ fmt = <<"%", ".", "6", "[", "_", "2", "]", "d">>
    /\ last.spec.prec = 6
    /\ last.sec.pz = 2
    /\ last.sec.body = <<"1", "2", "_", "3", "4">>
    /\ Flatten(out) = <<"0", "0", "1", "2", "_", "3", "4">>


\* the number of '*' in a grouping modifier
GroupStars(gs) == Cardinality({j \in 1..Len(gs) : gs[j] = "*"})

\* an integer conversion whose grouping modifier has a '*' width
StarGrouped ==
    /\ pc = "conv"
    /\ conv \in IntCodes
    /\ GroupStars(fspec.grouping) > 0
    /\ ~ConvOverflows

\* C19: each '*' group width takes exactly one int argument after the value
\* converted, the rightmost '*' the first of them, whatever the value, so
\* the conversion moves the argument cursor by a number that depends on the
\* specification alone.
C19_AsStated ==
    [][ (StarGrouped /\ nfail' = 0)
          => /\ last'.rc >= 0
             /\ ap' = ap + 1 + GroupStars(fspec.grouping)
             /\ (fspec.grouping = <<",", "*", "_", "*">>
                   /\ IntOf(va_arg(args, ap)) = 1234567
                   /\ IntOf(va_arg(args, ap + 1)) = 2
                   /\ IntOf(va_arg(args, ap + 2)) = 3)
                  => last'.sec.body
                       = <<"1", "2", ",", "3", "4", "5", "_", "6", "7">>
      ]_vars


\* the position of the conversion letter: after a length qualifier, which
\* may be doubled
ConvPos(s, p) ==
    IF READ_CHAR(s, QualPos(s, p)) \in {"h", "l", "j", "z", "t", "L"}
    THEN IF READ_CHAR(s, QualPos(s, p) + 1) = READ_CHAR(s, QualPos(s, p))
         THEN QualPos(s, p) + 2
         ELSE QualPos(s, p) + 1
    ELSE QualPos(s, p)

\* the specification at p has flags, a width, a precision and a length
\* qualifier at most, and the template ends where its letter would stand
NoLetter(s, p) ==
    /\ READ_CHAR(s, BasePos(s, p)) \notin {":", "["}
    /\ ConvPos(s, p) = Len(s) + 1

\* "hello world"
HelloPct_World == SubSeq(HelloPct, 1, 6) \o World

\* the scan starts again at the template that is argument i; what was
\* written and counted so far is kept
ContinuesAt(i) ==
    /\ pc' = "loop"
    /\ args[i].t = "str"
    /\ fmt' = args[i].v
    /\ ptr' = 1
    /\ ap' = i + 1
    /\ out' = out
    /\ fspec'.nChars = fspec.nChars
    /\ ret' = ret

LastArg == va_arg(args, last.ap0)

\* the last conversion was a floating-point one of a finite value and the
\* sink took all of it
LastFinite ==
    /\ IsFpCode(last.code)
    /\ last.rc >= 0
    /\ LastArg.t = "fp"
    /\ LastArg.v.expo # BIN_EXP_MASK

\* the precision in effect for e, E, f and F
LastPrec == IF last.spec.prec < 0 THEN 6 ELSE last.spec.prec

\* the index of the first occurrence of c in s (0: none)
IndexOf(s, c) ==
    IF \E i \in 1..Len(s) : s[i] = c
    THEN CHOOSE i \in 1..Len(s) : s[i] = c /\ \A j \in 1..(i - 1) : s[j] # c
    ELSE 0

PointAt == IndexOf(LastNumeral, ".")

AfterPoint ==
    IF PointAt = 0 THEN <<>>
    ELSE SubSeq(LastNumeral, PointAt + 1, Len(LastNumeral))

BeforePoint == SubSeq(LastNumeral, 1, PointAt - 1)

\* C21: f and F of a finite value with the precision p in effect (6 when none
\* is given) print exactly p digits after the decimal point when p > 0; with
\* p = 0 the decimal point is printed only under the # flag and no digit
\* follows it; a decimal point is always preceded by a digit.
C21_FixedDigits ==
    (LastFinite /\ IsF(last.code)) =>
        /\ LastPrec > 0 => (PointAt > 0 /\ DigitRun(AfterPoint) = LastPrec)
        /\ LastPrec = 0 => /\ (PointAt > 0) = (FHASH \in last.spec.flags)
                           /\ DigitRun(AfterPoint) = 0
        /\ PointAt > 0 => /\ PointAt > 1
                          /\ ISDIGIT(LastNumeral[PointAt - 1])
        /\ IndexOf(AfterPoint, ".") = 0

\* "%.3f" of 1234.5678 printed "1234.568"; "%.0f" of 0.5 printed a digit only
C21_Witness ==
    /\ LastFinite
    /\ last.code = "f"
    /\ \/ /\ last.spec.prec = 3
          /\ LastArg = FpArg(0, 137, 1724971)
          /\ LastNumeral = <<"1", "2", "3", "4", ".", "5", "6", "8">>
       \/ /\ last.spec.prec = 0
          /\ FHASH \notin last.spec.flags
          /\ LastArg = FpArg(0, 126, 0)
          /\ PointAt = 0
          /\ Len(LastNumeral) = 1

LastBody == last.sec.body

LastIsZero == LastArg.v.expo = 0 /\ LastArg.v.mant = 0

\* the position of the exponent letter in the body and the digits after the
\* sign of the exponent
ExpAt == IndexOf(LastBody, last.code)

ExpDigits == SubSeq(LastBody, ExpAt + 2, Len(LastBody))

LastDec == radix_convert(LastArg.v)

\* the decimal numeral of n without leading zeros (empty for 0)
Numeral(n) == mant_to_char(n, NumDigits(n), NumDigits(n))

RECURSIVE Strip0(_)
Strip0(s) == IF s # <<>> /\ Head(s) = "0" THEN Strip0(Tail(s)) ELSE s

\* m / 10^k rounded half-up
RoundAt(m, k) ==
    IF k <= 0 THEN m
    ELSE IF k > DEC_SIG_FIG THEN 0
    ELSE (m + 5 * Pow10(k - 1)) \div Pow10(k)

\* the value rounded half-up to p digits after the point of the e style:
\* p + 1 digits and the exponent, after the carry out of the leading digit
RoundedE(d, p) ==
    IF p >= DEC_SIG_FIG - 1
    THEN [digs |-> mant_to_char(d.mantissa, DEC_SIG_FIG, DEC_SIG_FIG)
                   \o Rep("0", p - (DEC_SIG_FIG - 1)),
          exponent |-> d.exponent]
    ELSE LET r == RoundAt(d.mantissa, DEC_SIG_FIG - 1 - p)
         IN  IF r >= Pow10(p + 1)
             THEN [digs |-> mant_to_char(r \div 10, p + 1, p + 1),
                   exponent |-> d.exponent + 1]
             ELSE [digs |-> mant_to_char(r, p + 1, p + 1),
                   exponent |-> d.exponent]

\* the value rounded half-up to p digits after the point of the f style: its
\* digits without the point and without leading zeros
RoundedF(d, p) ==
    LET sh == d.exponent - (DEC_SIG_FIG - 1) + p
    IN  IF sh >= 0 THEN Numeral(d.mantissa)
                        \o (IF d.mantissa = 0 THEN <<>> ELSE Rep("0", sh))
        ELSE Numeral(RoundAt(d.mantissa, -sh))

\* what was printed: the digits in front of the exponent letter, the exponent
\* and the digits of an f conversion
PrintedE == SelectSeq(SubSeq(LastBody, 1, ExpAt - 1), ISDIGIT)

PrintedExp ==
    IF LastBody[ExpAt + 1] = "-" THEN -DecOf(ExpDigits) ELSE DecOf(ExpDigits)

PrintedF == Strip0(SelectSeq(LastNumeral, ISDIGIT))

PlainE == LastFinite /\ last.code \in {"e", "E"}
          /\ FBANG \notin last.spec.flags

PlainF == LastFinite /\ IsF(last.code) /\ FBANG \notin last.spec.flags

\* f and F print the decoded value rounded half-up to the precision
RoundedFixed == PlainF => PrintedF = RoundedF(LastDec, LastPrec)

\* C23 as stated: e, E, f and F print the decoded decimal value rounded
\* half-up on its magnitude to p digits after the decimal point, whatever the
\* decimal exponent, and a carry out of the leading digit renormalises the
\* mantissa and increments the exponent.
C23_AsStated ==
    /\ RoundedFixed
    /\ PlainE => /\ PrintedE = RoundedE(LastDec, LastPrec).digs
                 /\ LastIsZero
                    \/ PrintedExp = RoundedE(LastDec, LastPrec).exponent

LastIsG == LastFinite /\ IsG(last.code)

\* the precision in effect for g and G: 6 when none is given, 0 taken as 1
LastPrecG ==
    IF last.spec.prec < 0 THEN 6
    ELSE IF last.spec.prec = 0 THEN 1 ELSE last.spec.prec

\* the g or G conversion printed an exponent
UsedE == IndexOf(LastBody, IF last.code = "g" THEN "e" ELSE "E") > 0

WantsE(P) == LastDec.exponent < -4 \/ LastDec.exponent >= P

\* with a precision given the style is chosen by the rule
StyleWithPrec == (LastIsG /\ last.spec.prec >= 0) => (UsedE = WantsE(LastPrecG))

\* C24 as stated: g and G of a finite value with decimal exponent X and the
\* precision P in effect (6 when none is given, 0 taken as 1) use the e style
\* exactly if X < -4 or X >= P, and the f style otherwise.
C24_AsStated == LastIsG => (UsedE = WantsE(LastPrecG))

\* the digits a g or G conversion printed in front of the exponent, without
\* the leading zeros: its significant digits
MantPart ==
    IF UsedE
    THEN SubSeq(LastBody, 1,
                IndexOf(LastBody, IF last.code = "g" THEN "e" ELSE "E") - 1)
    ELSE LastNumeral

SigDigits == Len(Strip0(SelectSeq(MantPart, ISDIGIT)))

\* C25 as stated: the precision P of g and G (6 when none is given, 0 taken
\* as 1) is the maximum number of significant digits: at most P significant
\* digits are printed in either style, and "%.2g" of 1234.5 prints "1.2e+03"
\* and returns 7.
C25_AsStated ==
    LastIsG =>
        /\ SigDigits <= LastPrecG
        /\ (last.spec.prec = 2 /\ last.spec.flags = {}
              /\ last.spec.width = 0 /\ LastArg = FpArg(0, 137, 1724416))
             => /\ LastBody = <<"1", ".", "2", "e", "+", "0", "3">>
                /\ last.rc = 7

BangE == LastFinite /\ last.code \in {"e", "E"} /\ FBANG \in last.spec.flags

\* the digits an e conversion printed in front of the exponent, as a numeral
\* without leading zeros; the last of them has the weight
\* 10^(PrintedExp - LastPrec)
PrintedMant == Strip0(PrintedE)

\* the decoded value rounded half-up to the weight 10^w, as a numeral
RoundedTo(d, w) ==
    LET k == w - (d.exponent - (DEC_SIG_FIG - 1))
    IN  IF k <= 0 THEN Numeral(d.mantissa)
                       \o (IF d.mantissa = 0 THEN <<>> ELSE Rep("0", -k))
        ELSE Numeral(RoundAt(d.mantissa, k))

\* the exponent is a multiple of three and one to three digits stand before
\* the decimal point
EngineeringShape ==
    BangE => /\ PrintedExp % 3 = 0
             /\ DigitRun(LastBody) \in 1..3
             /\ Len(PrintedE) = DigitRun(LastBody) + LastPrec

\* C26 as stated: e and E with the ! flag, of a finite value, print an
\* exponent that is a multiple of three and one to three digits before the
\* decimal point, and the digits times ten to the exponent are the value
\* rounded to the digits printed; "%!.3e" of 12345.0 is "12.345e+03" and of
\* 0.012345 is "12.345e-03".
C26_AsStated ==
    /\ EngineeringShape
    /\ BangE => PrintedMant = RoundedTo(LastDec, PrintedExp - LastPrec)
    /\ (BangE /\ last.code = "e" /\ last.spec.prec = 3)
         => /\ LastArg = FpArg(0, 140, 4252672)
                 => LastBody = <<"1", "2", ".", "3", "4", "5", "e", "+",
                                 "0", "3">>
            /\ LastArg = FpArg(0, 120, 4866735)
                 => LastBody = <<"1", "2", ".", "3", "4", "5", "e", "-",
                                 "0", "3">>

BangF == LastFinite /\ IsF(last.code) /\ FBANG \in last.spec.flags

\* the f conversion ended with an SI multiplier
HasPrefix ==
    /\ LastBody # <<>>
    /\ LastBody[Len(LastBody)] # NUL
    /\ \E i \in 1..Len(sitab) : sitab[i] = LastBody[Len(LastBody)]

IsNumChar(c) == ISDIGIT(c) \/ c = "."

\* the digits and the decimal point of the body
NumChars == Len(SelectSeq(LastBody, IsNumChar))

\* C27 as stated: f and F with the ! flag, of a value that takes an SI
\* multiplier, print the multiplier right after the last digit, without a
\* space, and it adds one byte to the count; "%!.3f" of 0.012345 is "12.345m"
\* and returns 7, of 12345.0 "12.345k" and returns 7.
C27_AsStated ==
    (BangF /\ HasPrefix) =>
        /\ LastBody[Len(LastBody) - 1] # " "
        /\ last.spec.width = 0
             => last.rc = Len(last.sec.pfx) + last.sec.pz + NumChars + 1
        /\ (last.code = "f" /\ last.spec.prec = 3 /\ last.spec.width = 0
              /\ last.spec.flags = {FBANG})
             => /\ LastArg = FpArg(0, 120, 4866735)
                     => /\ LastBody = <<"1", "2", ".", "3", "4", "5", "m">>
                        /\ last.rc = 7
                /\ LastArg = FpArg(0, 140, 4252672)
                     => /\ LastBody = <<"1", "2", ".", "3", "4", "5", "k">>
                        /\ last.rc = 7

(***************************************************************************)
(* Calls side by side                                                      *)
(***************************************************************************)
\* what each call of PairCases sends and returns when it runs alone and its
\* sink takes everything, by its argument list
Alone ==
    { [args |-> <<>>, text |-> <<>>, ret |-> EXBADFORMAT],
      [args |-> <<StrArg(<<"h", "e", "l", "l", "o">>)>>,
       text |-> <<"[", " ", " ", "h", "e", "l", "l", "o", " ", "]">>,
       ret |-> 10],
      [args |-> <<StrArg(World)>>,
       text |-> <<"h", "e", "l", "l", "o", " ">> \o World, ret |-> 11],
      [args |-> <<IntArg(1234567), IntArg(1234567)>>,
       text |-> <<"1", ",", "2", "3", "4", ",", "5", "6", "7", "|",
                  "1", "2", ",", "3", "4", "5", ".", "6", "7">>,
       ret |-> 19],
      [args |-> <<IntArg(1)>>, text |-> <<>>, ret |-> EXBADFORMAT],
      [args |-> <<IntArg(5)>>, text |-> <<>>, ret |-> EXBADFORMAT],
      [args |-> <<FpArg(0, 140, 4252672)>>,
       text |-> <<"1", "2", ".", "3", "5", " ", "k">>, ret |-> 7],
      [args |-> <<IntArg(7),
                  StrArg(<<"b", "%", "-", "2", "0", "s", "|", "%", "0", "4", "0", "d">>),
                  StrArg(<<"x", "y">>), IntArg(-9)>>,
       text |-> <<"a", " ", " ", "7", "b", "x", "y">> \o Rep(" ", 18)
                \o <<"|", "-">> \o Rep("0", 38) \o <<"9">>,
       ret |-> 66],
      [args |-> <<IntArg(LONG_MIN)>>,
       text |-> <<"-", "2", "1", "4", "7", "4", "8", "3", "6", "4", "8">>,
       ret |-> 11] }

AloneOf(a) == CHOOSE r \in Alone : r.args = a

\* the call with locals L does what it does alone: what its sink has taken
\* is the beginning of the same text, and once the call has returned, the
\* whole of it with the same return value; a sink that refused a call makes
\* format() return EXBADFORMAT
AsAlone(L) ==
    /\ L.nfail = 0 => IsPrefix(Flatten(L.out), AloneOf(L.args).text)
    /\ L.pc = "done" /\ L.nfail = 0 =>
         /\ Flatten(L.out) = AloneOf(L.args).text
         /\ L.ret = AloneOf(L.args).ret
    /\ L.pc = "done" /\ L.nfail # 0 => L.ret = EXBADFORMAT
    /\ L.pc # "done" => L.ret = NoRet

\* a step of the running call leaves the suspended one as it is, and a
\* switch hands each call's locals over unchanged
HandOver ==
    \/ other' = other
    \/ other' = Locals /\ Locals' = other

\* C28: when two calls of format run side by side on different sinks, under
\* every interleaving of their steps each sink receives the text and each
\* call returns the value of the same call run alone, and no step of one
\* call changes anything of the other.
C28_ReEntrant ==
    /\ [](AsAlone(Locals) /\ (other # NoOther => AsAlone(other)))
    /\ [][HandOver]_vars

\* both calls are in the middle of their templates, each sink holding a part
\* of its text: the grouping call before its second conversion, the
\* continuation call with "hello " sent
C28_Witness ==
    /\ other # NoOther
    /\ args = <<IntArg(1234567), IntArg(1234567)>>
    /\ pc = "conv"
    /\ Len(out) = 2
    /\ other.args = <<StrArg(World)>>
    /\ other.pc = "loop"
    /\ Flatten(other.out) = <<"h", "e", "l", "l", "o", " ">>
    /\ other.fmt = World

(***************************************************************************)
(* The fixed-point conversion %k (do_conv_k), step by step.  do_conv_k is  *)
(* entered with the widths of the fixed-point modifier in pspec->xp; its   *)
(* two loops are taken one pass at a time.  long and DEC_MANT_REG_TYPE are *)
(* 32 bits wide; the widths and values explored stay within 16 bits.       *)
(***************************************************************************)
KInts == {0, 1, 4, 8, 12}

KFracs == {0, 4, 8}

KVals == {0, 1, -1, 24, -24, 127, -127, 128, -128, 255, 256, 384, -384,
          32767, -32768}

KPrecs == {-1, 0, 2}

KNum(n) == IF n < 10 THEN <<digits[n + 1]>>
           ELSE <<digits[(n \div 10) + 1], digits[(n % 10) + 1]>>

\* "%{4.4}k", "%.2{4.8}k"
KTmpl(p, w_int, w_frac) ==
    <<"%">> \o (IF p < 0 THEN <<>> ELSE <<".">> \o KNum(p))
    \o <<"{">> \o KNum(w_int) \o <<".">> \o KNum(w_frac) \o <<"}", "k">>

\* the locals of do_conv_k at its first statement
KEntry(w_int, w_frac) ==
    [w_int |-> w_int, w_frac |-> w_frac, v |-> 0, sign |-> 0,
     mantissa |-> 0, exponent |-> 0, i |-> 0]

InitK ==
    /\ \E p \in KPrecs, w_int \in KInts, w_frac \in KFracs, v \in KVals :
         /\ fmt = KTmpl(p, w_int, w_frac)
         /\ args = <<IntArg(v)>>
         /\ fspec = [EmptySpec EXCEPT !.nChars = 0, !.prec = p]
         /\ frame = KEntry(w_int, w_frac)
    /\ ptr = Len(fmt)
    /\ ap = 1
    /\ conv = "k"
    /\ pc = "k_entry"
    /\ out = <<>>
    /\ ret = NoRet
    /\ text = <<>>
    /\ last = NoLast
    /\ nfail = 0
    /\ other = NoOther

total_bits == frame.w_int + frame.w_frac

total_bytes == (total_bits + 7) \div 8

\* do_conv_k returns n to format(): the conversion is the last of the
\* template
KReturnOf(n) ==
    /\ ret' = IF n < 0 THEN EXBADFORMAT ELSE fspec.nChars + n
    /\ pc' = "done"

\* if ( total_bytes == 0 ) return EXBADFORMAT;
KBadWidths ==
    /\ pc = "k_entry"
    /\ total_bytes = 0
    /\ KReturnOf(EXBADFORMAT)
    /\ UNCHANGED <<fmt, ptr, args, ap, fspec, conv, out, text, last, nfail>>
    /\ UNCHANGED <<other, frame>>

\* v = va_arg( *ap, int ); and zero is handled as a special case
KZero ==
    /\ pc = "k_entry"
    /\ total_bytes # 0
    /\ va_arg(args, ap).v = 0
    /\ frame' = [frame EXCEPT !.v = 0, !.sign = 0, !.mantissa = 0,
                              !.exponent = 0]
    /\ ap' = ap + 1
    /\ pc' = "k_efg"
    /\ UNCHANGED <<fmt, ptr, args, fspec, conv, out, ret, text, last, nfail>>
    /\ UNCHANGED other

\* sign = ( v >> ( total_bits - 1 ) ) & 0x01;
KSignOf(v) == (v \div 2^(total_bits - 1)) % 2

\* if ( sign ) v = -v;  v &= ( 1 << ( total_bits - 1 ) ) - 1;
KMasked(v) == (IF KSignOf(v) = 1 THEN -v ELSE v) % 2^(total_bits - 1)

\* a nonzero argument: the sign is taken, the value negated and masked,
\* mantissa = v; and the bit loop starts with i = -1
KNonZero ==
    /\ pc = "k_entry"
    /\ total_bytes # 0
    /\ va_arg(args, ap).v # 0
    /\ frame' = [frame EXCEPT !.sign = KSignOf(va_arg(args, ap).v),
                              !.v = KMasked(va_arg(args, ap).v),
                              !.mantissa = KMasked(va_arg(args, ap).v),
                              !.i = -1]
    /\ ap' = ap + 1
    /\ pc' = "k_bits"
    /\ UNCHANGED <<fmt, ptr, args, fspec, conv, out, ret, text, last, nfail>>
    /\ UNCHANGED other

\* for ( i = -1; v != 0; i++ ) v >>= 1;  one pass
KBit ==
    /\ pc = "k_bits"
    /\ frame.v # 0
    /\ frame' = [frame EXCEPT !.v = frame.v \div 2, !.i = frame.i + 1]
    /\ UNCHANGED <<fmt, ptr, args, ap, fspec, conv, pc, out, ret, text, last,
                   nfail>>
    /\ UNCHANGED other

\* the bit loop ends: exponent = i - pspec->xp.w_frac;
KExponent ==
    /\ pc = "k_bits"
    /\ frame.v = 0
    /\ frame' = [frame EXCEPT !.exponent = frame.i - frame.w_frac]
    /\ pc' = "k_shift"
    /\ UNCHANGED <<fmt, ptr, args, ap, fspec, conv, out, ret, text, last,
                   nfail>>
    /\ UNCHANGED other

\* BIN_MANT_MASK
BIN_MANT_MASK == 2^BIN_MANT_WIDTH - 1

\* (mantissa & ~BIN_MANT_MASK) == 0
KNoTopBit(m) == m \div (BIN_MANT_MASK + 1) = 0

\* while ( (mantissa & ~BIN_MANT_MASK) == 0 ) mantissa <<= 1;  one pass
\* (the mantissa is below 2^BIN_MANT_WIDTH here, the shift loses no bit)
KShift ==
    /\ pc = "k_shift"
    /\ KNoTopBit(frame.mantissa)
    /\ frame' = [frame EXCEPT !.mantissa = frame.mantissa * 2]
    /\ UNCHANGED <<fmt, ptr, args, ap, fspec, conv, pc, out, ret, text, last,
                   nfail>>
    /\ UNCHANGED other

\* BIN_PACK_MANT, BIN_PACK_EXPO and BIN_PACK_SIGN: the exponent is masked,
\* the bias is added, and what leaves the exponent field is overwritten by
\* the sign
KPacked(f) ==
    [sign |-> f.sign,
     expo |-> ((f.exponent % 2^BIN_EXP_WIDTH) + BIN_EXP_BIAS)
              % 2^BIN_EXP_WIDTH,
     mant |-> f.mantissa % (BIN_MANT_MASK + 1)]

\* the shift loop ends: the parts are packed into u and
\* radix_convert( u.d, &sign, &mantissa, &exponent ) is called
KPack ==
    /\ pc = "k_shift"
    /\ ~KNoTopBit(frame.mantissa)
    /\ \E d \in {radix_convert(KPacked(frame))} :
         frame' = [frame EXCEPT !.sign = d.sign, !.mantissa = d.mantissa,
                                !.exponent = d.exponent]
    /\ pc' = "k_efg"
    /\ UNCHANGED <<fmt, ptr, args, ap, fspec, conv, out, ret, text, last,
                   nfail>>
    /\ UNCHANGED other

\* r is the result of do_conv_efg
KOutOf(r, failAt) ==
    /\ out' = out \o r.k.calls
    /\ text' = text \o SecText(r.sec)
    /\ last' = [code |-> conv, spec |-> fspec, sec |-> r.sec,
                rc |-> r.k.rc, from |-> Len(out), ap0 |-> ap - 1,
                oob |-> FALSE]
    /\ nfail' = IF failAt # 0 /\ Len(r.k.calls) >= failAt
                THEN Len(out) + failAt ELSE nfail
    /\ fspec' = r.pspec
    /\ KReturnOf(r.k.rc)

\* return do_conv_efg( pspec, 'f', cons, parg, sign, mantissa, exponent );
KOut ==
    /\ pc = "k_efg"
    /\ \E failAt \in 0..MaxFailAt :
         \E r \in {do_conv_efg(fspec, "f", Sink(failAt), frame.sign,
                                frame.mantissa, frame.exponent)} :
           KOutOf(r, failAt)
    /\ UNCHANGED <<fmt, ptr, args, ap, conv>>
    /\ UNCHANGED <<other, frame>>

NextK == KBadWidths \/ KZero \/ KNonZero \/ KBit \/ KExponent \/ KShift
         \/ KPack \/ KOut

SpecK == InitK /\ [][NextK]_vars

\* the steps of do_conv_k up to the end of the shift loop
KLoops == KBadWidths \/ KZero \/ KNonZero \/ KBit \/ KExponent \/ KShift

\* what KPack and KOut do to the position: each can be taken whenever its
\* position is reached, and is the only step that leaves it
KCallRadix == pc = "k_shift" /\ ~KNoTopBit(frame.mantissa) /\ pc' = "k_efg"

KCallEfg == pc = "k_efg" /\ pc' = "done"

\* the function runs on the processor until it returns: a step that can be
\* taken is taken in the end
SpecKLive ==
    SpecK /\ WF_vars(KLoops) /\ WF_pc(KCallRadix) /\ WF_pc(KCallEfg)

\* C29 as stated: for every argument and every pair of widths whose total
\* is not zero, do_conv_k returns.
C29_AsStated == total_bits # 0 ~> pc = "done"

\* the conversion does return once the value left by the sign and the mask
\* is not zero, when the argument is zero, and when both widths are zero
KReturns ==
    (pc = "k_efg" \/ (pc = "k_shift" /\ frame.mantissa # 0)
     \/ total_bytes = 0) ~> pc = "done"

(***************************************************************************)
(* The scratch digit buffer of the integer conversions                     *)
(***************************************************************************)
\* the last conversion was made by do_conv_numeric and came back
LastNumeric ==
    /\ last.code \in {"d", "i", "I", "u", "U", "x", "X", "o", "b", "p"}
    /\ last.rc # NoRet

\* the digits and separators that stand in numBuffer after the conversion
LastDigits == last.sec.body

====
